---- MODULE Spec2Model ----
(***************************************************************************)
(* State-machine model of the pipeline execution engine of                 *)
(* caseys-panel-backend:                                                   *)
(*   - the checkpoint store   (app/services/checkpointer.py)               *)
(*   - the retry / fallback executor (app/agents/base.py)                  *)
(*   - the pipeline scheduler (app/graph/workflow.py) and the run          *)
(*     lifecycle handlers     (app/api/workflows.py)                       *)
(*                                                                         *)
(*   - the in-memory task queue (app/services/queue.py) and the canvas     *)
(*     versioning of update_canvas (app/api/workflows.py)                  *)
(*                                                                         *)
(* The specifications share the variables; among them:                     *)
(*   SpecStore : sequences of save_checkpoint calls                        *)
(*   SpecRetry : one invocation of BaseAgent.run_with_retry                *)
(*   Spec      : one run, its pipeline passes and the lifecycle handlers   *)
(*   SpecQueue, SpecCanvas : the task queue; the canvas writers            *)
(*   SpecFindings  : one fresh pass whose safety evaluations find issues   *)
(*   SpecStoreRace : save_checkpoint calls whose statements interleave     *)
(***************************************************************************)
EXTENDS Integers, Sequences, FiniteSets, Bags, TLC

VARIABLES
    \* ---- checkpoint store (table checkpoints) ----
    checkpoints,    \* the rows, in insertion order
    next_id,        \* the autoincrement sequence of Checkpoint.id
    cp_call,        \* the last save_checkpoint call and what it returned
    cp_returned,    \* ids returned by the save_checkpoint calls before the last
    cp_sessions,    \* save_checkpoint calls running in sessions of their own
    \* ---- run_with_retry (one invocation) ----
    r_pc,           \* where the coroutine is suspended
    r_attempt,      \* loop variable `attempt`
    r_attempts,     \* local `attempts`
    r_last_error,   \* local `last_error`
    r_elapsed,      \* time.perf_counter() - start_time, in seconds
    r_calls,        \* invocations of process / fallback_process, sleeps taken
    r_events,       \* RETRIED events saved by this invocation
    r_trace,        \* what each primary attempt did (history)
    r_fb,           \* what fallback_process did (history)
    r_outcome,      \* the terminal outcome of the invocation
    \* ---- run lifecycle and pipeline passes ----
    run_status,     \* WorkflowRun.status of the run
    events,         \* table events: rows written by the scheduler and handlers
    passes,         \* the pipeline passes (run_workflow_async tasks) of the run
    \* ---- validate_agent_output (applied repeatedly to one output) ----
    n_agent,        \* the agent_no argument
    n_input,        \* the output_dict the first application is given
    n_result,       \* what the last application returned or raised
    n_applied,      \* how many applications were made
    \* ---- node metrics (table run_node_metrics) ----
    run_node_metrics,   \* the rows, in insertion order
    metrics_calls,      \* the persist_node_metrics calls made so far (history)
    \* ---- safety rules (one check_all_rules call) ----
    s_rules,        \* registry._rules: the registered rule ids, in insertion order
    s_state,        \* the state dict handed to the rules
    s_node_key,     \* the node_key argument
    s_issues,       \* what the call returned
    \* ---- save_event and the websocket broadcast ----
    event_rows,     \* table events as save_event writes it, in insertion order
    event_next_id,  \* the autoincrement sequence of Event.id
    event_call,     \* the last save_event call and how it ended
    broadcasts,     \* the broadcast tasks created, with what became of each
    \* ---- cancel_workflow requests ----
    cancel_response, \* the last cancel request and the response it got
    \* ---- InMemoryAsyncQueue (one instance) ----
    q_running,      \* self.running
    q_queue,        \* self.queue: the asyncio.Queue, or None
    q_worker_task,  \* self.worker_task: the worker task's number, 0 for None
    q_workers,      \* the _worker tasks created so far
    q_stopping,     \* the stop() calls made and the workers they await
    q_tasks,        \* the tasks pushed, in push order, with their futures
    \* ---- table canvases and the update_canvas requests ----
    canvas,         \* the canvas row of (patient, agent 7, tenant)
    canvas_sessions,\* the canvas writers: what each loaded and will write
    canvas_log      \* the finished canvas writes and their responses (history)

storeVars == <<checkpoints, next_id, cp_call, cp_returned, cp_sessions>>
retryVars == <<r_pc, r_attempt, r_attempts, r_last_error, r_elapsed, r_calls,
               r_events, r_trace, r_fb, r_outcome>>
pipeVars  == <<run_status, events, passes>>
normVars  == <<n_agent, n_input, n_result, n_applied>>
metricVars == <<run_node_metrics, metrics_calls>>
safetyVars == <<s_rules, s_state, s_node_key, s_issues>>
eventVars == <<event_rows, event_next_id, event_call, broadcasts>>
cancelVars == <<cancel_response>>
queueVars == <<q_running, q_queue, q_worker_task, q_workers, q_stopping, q_tasks>>
canvasVars == <<canvas, canvas_sessions, canvas_log>>
libVars   == <<normVars, metricVars, safetyVars, eventVars, cancelVars, queueVars,
               canvasVars>>
vars == <<storeVars, retryVars, pipeVars, libVars>>

(***************************************************************************)
(* Bounds of the model                                                     *)
(***************************************************************************)
MaxSaves   == 3     \* save_checkpoint calls in SpecStore
MaxTick    == 1     \* seconds one awaited process call may take
MaxPasses  == 2     \* pipeline passes of the run (fresh, resumed, re-queued)
MaxInFlight == 1    \* passes of the run in flight at the same time
MaxApplications == 3 \* times the normalizer is applied to its own output
MaxWords == 2       \* words of a raw problem heading
MaxProblems == 3    \* problems with repeated headings in one raw output
MaxLines == 2       \* lines of a raw Physical Exam text
MaxPersists == 3    \* persist_node_metrics calls in SpecMetrics
MaxItems == 2       \* entries of a list in the state the safety rules check
MaxEvents == 3      \* save_event calls in SpecEvents
MaxCancels == 2     \* cancel requests in SpecCancel
MaxFailures == 1    \* stage invocations of the run that end in a raised failure

(***************************************************************************)
(* Checkpoint store                                                        *)
(***************************************************************************)
RunIds   == {"run_1", "run_2"}
NoRow    == [id |-> 0]

\* A state dict as the caller builds it: key/value pairs in insertion order.
DictKeys == {"output", "status", "metrics"}
\* json.dumps(..., sort_keys=True) writes the keys in this order.
SortedKeys == <<"metrics", "output", "status">>

HasKey(d, k) == \E i \in 1..Len(d) : d[i][1] = k
ValueOf(d, k) == d[CHOOSE i \in 1..Len(d) : d[i][1] = k][2]

RECURSIVE DumpsFrom(_, _)
DumpsFrom(d, i) ==
    IF i > Len(SortedKeys) THEN <<>>
    ELSE LET k == SortedKeys[i] IN
         (IF HasKey(d, k) THEN <<<<k, ValueOf(d, k)>>>> ELSE <<>>)
            \o DumpsFrom(d, i + 1)

\* Faulty variant: json.dumps(state) without sort_keys, the dict's own order.
serialized_unsorted(state) == state

\* json.dumps(state, sort_keys=True).encode("utf-8")
serialized(state) == DumpsFrom(state, 1)

\* hashlib.sha256(serialized).hexdigest(); collisions are not modelled.
state_hash(state) == <<"sha256", serialized(state)>>

\* session.query(Checkpoint).filter(run_id, node_key, state_hash).first()
existing(rows, run_id, node_key, h) ==
    LET hits == {i \in 1..Len(rows) :
                    /\ rows[i].run_id = run_id
                    /\ rows[i].node_key = node_key
                    /\ rows[i].state_hash = h}
    IN IF hits = {} THEN NoRow
       ELSE rows[CHOOSE i \in hits : \A j \in hits : i <= j]

\* The row save_checkpoint inserts.
Checkpoint(id, run_id, node_key, state) ==
    [id |-> id, run_id |-> run_id, node_key |-> node_key,
     state_json |-> state, state_hash |-> state_hash(state)]

\* save_checkpoint as a function of the table: the new table, the new sequence
\* value and the id returned.
save_checkpoint(rows, nid, run_id, node_key, state) ==
    LET ex == existing(rows, run_id, node_key, state_hash(state)) IN
    IF ex # NoRow
        THEN [rows |-> rows, next_id |-> nid, id |-> ex.id]
        ELSE [rows |-> Append(rows, Checkpoint(nid, run_id, node_key, state)),
              next_id |-> nid + 1, id |-> nid]

\* The state dicts callers pass: {"output": .., "status": "completed"} with or
\* without "metrics", written in any key order.
StoreOutputs == {"foo_bar", "foo_baz"}
StoreNodes   == {"agent_1"}
AllOrders(d) == { [i \in 1..Len(d) |-> d[p[i]]] : p \in Permutations(1..Len(d)) }
StateDicts ==
    UNION { AllOrders(<<<<"output", o>>, <<"status", "completed">>>>)
            \cup AllOrders(<<<<"output", o>>, <<"status", "completed">>,
                             <<"metrics", "m">>>>) : o \in StoreOutputs }

NoCall == [n |-> 0, run_id |-> "", node_key |-> "", state |-> <<>>, id |-> 0]

\* One call of PostgresCheckpointer.save_checkpoint.
SaveCheckpoint ==
    /\ cp_call.n < MaxSaves
    /\ \E run_id \in RunIds, node_key \in StoreNodes, state \in StateDicts :
         LET res == save_checkpoint(checkpoints, next_id, run_id, node_key, state) IN
         /\ checkpoints' = res.rows
         /\ next_id' = res.next_id
         /\ cp_call' = [n |-> cp_call.n + 1, run_id |-> run_id,
                        node_key |-> node_key, state |-> state, id |-> res.id]
         /\ cp_returned' = cp_returned \cup (IF cp_call.n > 0 THEN {cp_call.id} ELSE {})
    /\ UNCHANGED <<cp_sessions, retryVars, pipeVars, libVars>>

\* clear_checkpoints(run_id): the table after the delete.
clear_checkpoints(rows, run_id) == SelectSeq(rows, LAMBDA cp : cp.run_id # run_id)

\* One call of PostgresCheckpointer.clear_checkpoints.
ClearCheckpoints ==
    /\ \E run_id \in RunIds : checkpoints' = clear_checkpoints(checkpoints, run_id)
    /\ UNCHANGED <<next_id, cp_call, cp_returned, cp_sessions>>
    /\ UNCHANGED <<retryVars, pipeVars, libVars>>

(***************************************************************************)
(* Retry / fallback executor: BaseAgent.run_with_retry                     *)
(***************************************************************************)
max_retries  == 4
retry_delays == <<1, 2, 4, 8>>

\* Exceptions process() may raise: the two classified ones and anything else.
ErrorKinds == {"Transient", "Permanent", "Other"}
NoError    == [kind |-> "none", attempt |-> 0]
NoOutcome  == [kind |-> "none"]

\* Faulty variant: every exception is retried, classified or not.
retryable_always(kind) == TRUE

\* isinstance(e, TransientAgentError) or not isinstance(e, PermanentAgentError)
retryable(kind) == kind = "Transient" \/ ~(kind = "Permanent")

\* Faulty variant: retries counts the first attempt too.
metrics_retries_wrong(attempts, duration, fallback_used) ==
    [attempts |-> attempts, retries |-> attempts,
     duration_ms |-> duration * 1000, fallback_used |-> fallback_used]

\* The metrics run_with_retry writes into result.flags["metrics"].
metrics(attempts, duration, fallback_used) ==
    [attempts |-> attempts, retries |-> attempts - 1,
     duration_ms |-> duration * 1000, fallback_used |-> fallback_used]

\* Faulty variant: the last iteration of the loop backs off and retries too.
retry_again_off_by_one(attempt, kind) == attempt < max_retries /\ retryable(kind)

\* if attempt < self.max_retries - 1 and retryable
retry_again(attempt, kind) == attempt < max_retries - 1 /\ retryable(kind)

\* Faulty variant: only the first error is kept.
caught_first(last_error, kind, n) ==
    IF last_error = [kind |-> "none", attempt |-> 0]
       THEN [kind |-> kind, attempt |-> n] ELSE last_error

\* except Exception as e: last_error = e  (the error of attempt number n)
caught(last_error, kind, n) == [kind |-> kind, attempt |-> n]

\* Faulty variant: the fallback annotation is left out.
retried_event_unannotated(attempts, fallback, sleeps) ==
    [attempt |-> attempts, fallback |-> FALSE, sleeps_before |-> sleeps]

\* save_event(run_id, f"agent_{n}", EventType.RETRIED, payload): the payload
\* carries the attempt, or fallback = True and final_retry_attempts; the model
\* also notes how many backoff sleeps had been made when it was saved.
retried_event(attempts, fallback, sleeps) ==
    [attempt |-> attempts, fallback |-> fallback, sleeps_before |-> sleeps]

\* What follows the retry loop: fallback_process is awaited.
call_fallback == [r_calls EXCEPT !.fallback = @ + 1]

\* Entry: the first iteration of the loop awaits process().
RetryStart ==
    /\ r_pc = "idle"
    /\ r_pc' = "process"
    /\ r_attempt' = 0
    /\ r_attempts' = 1
    /\ r_calls' = [r_calls EXCEPT !.process = @ + 1]
    /\ UNCHANGED <<r_last_error, r_elapsed, r_events, r_trace, r_fb, r_outcome>>
    /\ UNCHANGED <<storeVars, pipeVars, libVars>>

\* process() returns a result: metrics are attached and the result returned.
ProcessReturns ==
    /\ r_pc = "process"
    /\ \E t \in 0..MaxTick :
         LET el == r_elapsed + t IN
         /\ r_elapsed' = el
         /\ r_outcome' = [kind |-> "success", source |-> "primary",
                          metrics |-> metrics(r_attempts, el, FALSE)]
    /\ r_trace' = Append(r_trace, "ok")
    /\ r_pc' = "done"
    /\ UNCHANGED <<r_attempt, r_attempts, r_last_error, r_calls, r_events, r_fb>>
    /\ UNCHANGED <<storeVars, pipeVars, libVars>>

\* process() raises: classify, then retry after the backoff or leave the loop
\* and await the fallback.
ProcessRaises ==
    /\ r_pc = "process"
    /\ \E kind \in ErrorKinds, t \in 0..MaxTick :
         /\ r_last_error' = caught(r_last_error, kind, r_attempts)
         /\ r_trace' = Append(r_trace, kind)
         /\ r_elapsed' = r_elapsed + t
         /\ IF retry_again(r_attempt, kind)
               THEN /\ r_events' = Append(r_events,
                                         retried_event(r_attempts, FALSE, r_calls.sleep))
                    /\ r_pc' = "sleep"
                    /\ UNCHANGED r_calls
               ELSE /\ r_pc' = "fallback"
                    /\ r_calls' = call_fallback
                    /\ UNCHANGED r_events
    /\ UNCHANGED <<r_attempt, r_attempts, r_fb, r_outcome>>
    /\ UNCHANGED <<storeVars, pipeVars, libVars>>

\* await asyncio.sleep(delay) returns: the next iteration awaits process().
SleepDone ==
    /\ r_pc = "sleep"
    /\ r_elapsed' = r_elapsed + retry_delays[r_attempt + 1]
    /\ r_attempt' = r_attempt + 1
    /\ r_attempts' = r_attempt + 2
    /\ r_calls' = [r_calls EXCEPT !.sleep = @ + 1, !.process = @ + 1]
    /\ r_pc' = "process"
    /\ UNCHANGED <<r_last_error, r_events, r_trace, r_fb, r_outcome>>
    /\ UNCHANGED <<storeVars, pipeVars, libVars>>

\* fallback_process returns a result (fb is not None).
FallbackReturns ==
    /\ r_pc = "fallback"
    /\ r_events' = Append(r_events, retried_event(r_attempts, TRUE, r_calls.sleep))
    /\ \E t \in 0..MaxTick :
         LET el == r_elapsed + t IN
         /\ r_elapsed' = el
         /\ r_outcome' = [kind |-> "success", source |-> "fallback",
                          metrics |-> metrics(r_attempts, el, TRUE)]
    /\ r_fb' = "returned"
    /\ r_pc' = "done"
    /\ UNCHANGED <<r_attempt, r_attempts, r_last_error, r_calls, r_trace>>
    /\ UNCHANGED <<storeVars, pipeVars, libVars>>

\* fallback_process returns None: raise last_error.
FallbackReturnsNone ==
    /\ r_pc = "fallback"
    /\ r_outcome' = IF r_last_error # NoError
                       THEN [kind |-> "raise", error |-> "primary",
                             cause |-> r_last_error]
                       ELSE [kind |-> "raise", error |-> "generic", cause |-> NoError]
    /\ r_fb' = "returned_none"
    /\ r_pc' = "done"
    /\ UNCHANGED <<r_attempt, r_attempts, r_last_error, r_elapsed, r_calls,
                   r_events, r_trace>>
    /\ UNCHANGED <<storeVars, pipeVars, libVars>>

\* fallback_process raises fe: raise FallbackExhaustedError(str(fe)) from fe.
FallbackRaises ==
    /\ r_pc = "fallback"
    /\ r_outcome' = [kind |-> "raise", error |-> "FallbackExhausted",
                     cause |-> [kind |-> "fallback_error", attempt |-> 0]]
    /\ r_fb' = "raised"
    /\ r_pc' = "done"
    /\ UNCHANGED <<r_attempt, r_attempts, r_last_error, r_elapsed, r_calls,
                   r_events, r_trace>>
    /\ UNCHANGED <<storeVars, pipeVars, libVars>>

(***************************************************************************)
(* Pipeline scheduler: the stage graph of app/graph/workflow.py            *)
(*                                                                         *)
(* A pass is one run_workflow_async task.  Its steps are the stretches of  *)
(* code between two awaits of a stage's run_with_retry: what a node does   *)
(* after its stage returned, the routing edges, and what the next node     *)
(* does before it awaits its own stage.  A step is threaded through a      *)
(* context [p, cps, nid, ev, status]: the pass's WorkflowState and the     *)
(* tables it writes.                                                       *)
(***************************************************************************)
TheRun == "run_1"

AgentKeys == <<"agent_1", "agent_2", "agent_3", "agent_4", "agent_5",
               "agent_6", "agent_7", "agent_8", "agent_9", "agent_10">>
\* f"agent_{i}"
agent_key(i) == AgentKeys[i]
\* int(node.split("_")[1])
agent_num(node) == CHOOSE i \in 1..Len(AgentKeys) : AgentKeys[i] = node

StageAAgents == 1..6
AllAgents    == 1..10

\* result.model_dump() of the output of agent n (the routing flags are the
\* orchestrator's specialist_needed / pharmacist_needed).
model_dump(n, ns, np) ==
    [agent_no |-> n, specialist_needed |-> ns, pharmacist_needed |-> np]

\* An output-map entry: a pydantic model built by a node, or the plain dict
\* read back from a checkpoint.
model_entry(o) == [kind |-> "model", output |-> o]
dict_entry(o)  == [kind |-> "dict", output |-> o]

\* {"output": result.model_dump(), "status": "completed", "metrics": metrics}
checkpoint_state(o) ==
    <<<<"output", o>>, <<"status", "completed">>, <<"metrics", metrics(1, 0, FALSE)>>>>

\* Attribute access entry.<attr>: a dict has no attributes, a model has those
\* of its class.
has_attr(entry, attr) ==
    /\ entry.kind = "model"
    /\ \/ attr \in {"specialist_needed", "pharmacist_needed"} /\ entry.output.agent_no = 7
       \/ attr = "reconciled_meds" /\ entry.output.agent_no = 2

emit(ctx, node_key, event_type) ==
    [ctx EXCEPT !.ev = @ (+) SetToBag({<<node_key, event_type>>})]

save(ctx, node_key, o) ==
    LET res == save_checkpoint(ctx.cps, ctx.nid, TheRun, node_key, checkpoint_state(o))
    IN [ctx EXCEPT !.cps = res.rows, !.nid = res.next_id]

\* Faulty variant: the evaluation is made twice.
evaluate_safety_twice(ctx, source_node) ==
    [ctx EXCEPT !.p.safety_evals = @ \o <<source_node, source_node>>]

\* The stages after which the safety rules are evaluated.
SafetySources == {"agent_7", "agent_9", "agent_10"}

\* What one evaluation meets: building the snapshot or checking the rules
\* raises, or the rules return `found` issues and save_event raises for the
\* issues numbered in `lost`.
SafetyOutcome(raises, found, lost) == [raises |-> raises, found |-> found, lost |-> lost]
NoFindings == [s \in SafetySources |-> SafetyOutcome(FALSE, 0, {})]

\* Faulty variant: the issue is appended only when its event was written.
record_issue_if_written(ctx, source_node, j, lost) ==
    IF j \in lost THEN ctx
    ELSE [emit(ctx, "safety", "progress") EXCEPT
             !.p.safety_issues = Append(@, [rule_id |-> j, source |-> source_node])]

\* The body of the loop of _evaluate_and_record_safety for issue j: the event
\* under node key 'safety' (an exception of save_event is passed over), then
\* the entry of state.safety_issues.
record_issue(ctx, source_node, j, lost) ==
    LET c1 == IF j \in lost THEN ctx ELSE emit(ctx, "safety", "progress")
    IN [c1 EXCEPT !.p.safety_issues = Append(@, [rule_id |-> j, source |-> source_node])]

\* for issue in issues
RECURSIVE record_issues(_, _, _, _, _)
record_issues(ctx, source_node, j, found, lost) ==
    IF j > found THEN ctx
    ELSE record_issues(record_issue(ctx, source_node, j, lost), source_node, j + 1,
                       found, lost)

\* Faulty variant: the exception of the evaluation leaves the node's try.
evaluate_safety_unguarded(ctx, source_node) ==
    LET out == ctx.p.safety_plan[source_node]
        c1  == [ctx EXCEPT !.p.safety_evals = Append(@, source_node)]
    IN IF out.raises
          THEN [c1 EXCEPT !.p.errors = Append(@, agent_num(source_node)),
                          !.p.failed = @ \cup {agent_num(source_node)}]
          ELSE record_issues(c1, source_node, 1, out.found, out.lost)

\* _evaluate_and_record_safety(state, source_node) inside the node's try /
\* except Exception: the pass records that the rules were evaluated
\* (safety_evals); an exception ends the evaluation and is logged, otherwise
\* each issue returned is recorded.  The outcome is the one the pass's data
\* and environment give (safety_plan).  The rules themselves and save_event
\* are CheckSafetyRules and SaveEvent.
evaluate_safety(ctx, source_node) ==
    LET out == ctx.p.safety_plan[source_node]
        c1  == [ctx EXCEPT !.p.safety_evals = Append(@, source_node)]
    IN IF out.raises THEN c1
       ELSE record_issues(c1, source_node, 1, out.found, out.lost)

\* An exception leaves app.ainvoke: the except branch of run_workflow_async
\* marks the run failed.
pass_raises(ctx) ==
    [ctx EXCEPT !.p.pc = "done", !.p.crashed = TRUE, !.status = "failed"]

\* A stage's run_with_retry raised: the node records the error and returns.
stage_failed(ctx, n) ==
    emit([ctx EXCEPT !.p.errors = Append(@, n), !.p.failed = @ \cup {n}],
         agent_key(n), "failed")

\* A node starts its stage: the STARTED event, then await run_with_retry.
await_stage(ctx, n, pc) ==
    [emit(ctx, agent_key(n), "started") EXCEPT !.p.pc = pc, !.p.invoked = @ \cup {n}]

\* stage_c_compiler up to its await
enter_stage_c(ctx) == await_stage(ctx, 10, "stage_c")

\* stage_c_compiler after its await; the finalize node follows.
stage_c_done(ctx, ok) ==
    IF ~ok THEN [stage_failed(ctx, 10) EXCEPT !.p.pc = "finalize"]
    ELSE LET o  == model_dump(10, FALSE, FALSE)
             c1 == [ctx EXCEPT
                      !.p.stage_c_outputs = ("agent_10" :> model_entry(o)) @@ @,
                      !.p.completed_nodes = Append(@, "agent_10"),
                      !.p.pc = "finalize"]
         IN emit(emit(evaluate_safety(save(c1, "agent_10", o), "agent_10"),
                      "agent_10", "completed"),
                 "agent_10", "progress")

\* stage_b_pharmacist up to its await
pharmacist_node(ctx) ==
    LET b == ctx.p.stage_b_outputs
        a == ctx.p.stage_a_outputs
    IN IF "agent_7" \notin DOMAIN b THEN enter_stage_c(ctx)
       ELSE IF ~has_attr(b["agent_7"], "pharmacist_needed") THEN pass_raises(ctx)
       ELSE IF ~b["agent_7"].output.pharmacist_needed THEN enter_stage_c(ctx)
       ELSE IF "agent_2" \in DOMAIN a /\ ~has_attr(a["agent_2"], "reconciled_meds")
               THEN pass_raises(emit(ctx, "agent_9", "started"))
       ELSE await_stage(ctx, 9, "pharmacist")

\* stage_b_pharmacist after its await; the edge to stage_c follows.
pharmacist_done(ctx, ok) ==
    IF ~ok THEN enter_stage_c(stage_failed(ctx, 9))
    ELSE LET o  == model_dump(9, FALSE, FALSE)
             c1 == [ctx EXCEPT
                      !.p.stage_b_outputs = ("agent_9" :> model_entry(o)) @@ @,
                      !.p.completed_nodes = Append(@, "agent_9")]
         IN enter_stage_c(emit(emit(evaluate_safety(save(c1, "agent_9", o), "agent_9"),
                                    "agent_9", "completed"),
                               "agent_9", "progress"))

\* the conditional edge should_run_pharmacist after the specialist node
should_run_pharmacist(ctx) ==
    LET b == ctx.p.stage_b_outputs
    IN IF "agent_7" \notin DOMAIN b THEN enter_stage_c(ctx)
       ELSE IF ~has_attr(b["agent_7"], "pharmacist_needed") THEN pass_raises(ctx)
       ELSE IF b["agent_7"].output.pharmacist_needed THEN pharmacist_node(ctx)
       ELSE enter_stage_c(ctx)

\* stage_b_specialist up to its await (or its skip and the edge after it)
specialist_node(ctx) ==
    LET b == ctx.p.stage_b_outputs
    IN IF "agent_7" \notin DOMAIN b THEN should_run_pharmacist(ctx)
       ELSE IF ~has_attr(b["agent_7"], "specialist_needed") THEN pass_raises(ctx)
       ELSE IF ~b["agent_7"].output.specialist_needed THEN should_run_pharmacist(ctx)
       ELSE await_stage(ctx, 8, "specialist")

\* stage_b_specialist after its await; the edge should_run_pharmacist follows.
specialist_done(ctx, ok) ==
    IF ~ok THEN should_run_pharmacist(stage_failed(ctx, 8))
    ELSE LET o  == model_dump(8, FALSE, FALSE)
             c1 == [ctx EXCEPT
                      !.p.stage_b_outputs = ("agent_8" :> model_entry(o)) @@ @,
                      !.p.completed_nodes = Append(@, "agent_8")]
         IN should_run_pharmacist(
                emit(emit(save(c1, "agent_8", o), "agent_8", "completed"),
                     "agent_8", "progress"))

\* the conditional edge should_run_specialist after the orchestrator node
should_run_specialist(ctx) ==
    LET b == ctx.p.stage_b_outputs
    IN IF "agent_7" \notin DOMAIN b THEN pharmacist_node(ctx)
       ELSE IF ~has_attr(b["agent_7"], "specialist_needed") THEN pass_raises(ctx)
       ELSE IF b["agent_7"].output.specialist_needed THEN specialist_node(ctx)
       ELSE pharmacist_node(ctx)

\* stage_b_orchestrator up to its await: it runs in every pass.
enter_orchestrator(ctx) == await_stage(ctx, 7, "orchestrator")

\* stage_b_orchestrator after its await; the edge should_run_specialist follows.
orchestrator_done(ctx, ok, ns, np) ==
    IF ~ok THEN should_run_specialist(stage_failed(ctx, 7))
    ELSE LET o  == model_dump(7, ns, np)
             c1 == [ctx EXCEPT
                      !.p.stage_b_outputs = ("agent_7" :> model_entry(o)) @@ @,
                      !.p.completed_nodes = Append(@, "agent_7")]
         IN should_run_specialist(
                emit(emit(evaluate_safety(save(c1, "agent_7", o), "agent_7"),
                          "agent_7", "completed"),
                     "agent_7", "progress"))

\* pending_agents of stage_a_parallel: the agents whose key is not in
\* state.stage_a_outputs, in ascending order.
RECURSIVE pending_from(_, _)
pending_from(existing_keys, i) ==
    IF i > 6 THEN <<>>
    ELSE (IF agent_key(i) \in existing_keys THEN <<>> ELSE <<i>>)
            \o pending_from(existing_keys, i + 1)

pending_agents(a_outputs) == pending_from(DOMAIN a_outputs, 1)

\* Faulty variant: the key is one further than the position in the list.
result_key_next(pending, i) == agent_key(i + 1)

\* The key stage_a_parallel files the i-th gathered result under
\* (i counts from 1 here, enumerate counts from 0): f"agent_{i + 1}".
result_key(pending, i) == agent_key(i)

\* Faulty variant: the loop stops at the first result that is an exception.
RECURSIVE collect_results_until_error(_, _, _, _)
collect_results_until_error(ctx, outputs, i, F) ==
    IF i > Len(ctx.p.pending) THEN [ctx |-> ctx, outputs |-> outputs]
    ELSE LET n   == ctx.p.pending[i]
             key == agent_key(i)
         IN IF n \in F
              THEN [ctx |-> [ctx EXCEPT !.p.errors = Append(@, agent_num(key)),
                                        !.p.failed = @ \cup {n}],
                    outputs |-> outputs]
              ELSE LET o  == model_dump(n, FALSE, FALSE)
                       c1 == [ctx EXCEPT !.p.completed_nodes = Append(@, key)]
                   IN collect_results_until_error(
                        emit(save(c1, key, o), key, "progress"),
                        (key :> model_entry(o)) @@ outputs, i + 1, F)

\* The loop over the gathered results: F holds the agents whose run_with_retry
\* raised.  Returns the context and the local `outputs`.
RECURSIVE collect_results(_, _, _, _)
collect_results(ctx, outputs, i, F) ==
    IF i > Len(ctx.p.pending) THEN [ctx |-> ctx, outputs |-> outputs]
    ELSE LET n   == ctx.p.pending[i]
             key == result_key(ctx.p.pending, i)
         IN IF n \in F
              THEN collect_results(
                     [ctx EXCEPT !.p.errors = Append(@, agent_num(key)),
                                 !.p.failed = @ \cup {n}],
                     outputs, i + 1, F)
              ELSE LET o  == model_dump(n, FALSE, FALSE)
                       c1 == [ctx EXCEPT !.p.completed_nodes = Append(@, key)]
                   IN collect_results(emit(save(c1, key, o), key, "progress"),
                                      (key :> model_entry(o)) @@ outputs, i + 1, F)

\* Faulty variant: the orchestrator is entered without the loop over the
\* gathered results.
stage_a_done_early(ctx, F) == enter_orchestrator(emit(ctx, "stage_a", "completed"))

\* stage_a_parallel after asyncio.gather returned; the orchestrator follows.
stage_a_done(ctx, F) ==
    LET r  == collect_results(ctx, <<>>, 1, F)
        c1 == [r.ctx EXCEPT !.p.stage_a_outputs = r.outputs, !.p.pending = <<>>]
    IN enter_orchestrator(emit(c1, "stage_a", "completed"))

\* run_workflow_async and stage_a_parallel up to the first await.
enter_stage_a(ctx) ==
    LET c1 == emit(emit(ctx, "workflow", "started"), "stage_a", "started")
        pa == pending_agents(c1.p.stage_a_outputs)
    IN IF pa = <<>> THEN enter_orchestrator(c1)
       ELSE [c1 EXCEPT !.p.pc = "stage_a", !.p.pending = pa,
                       !.p.invoked = @ \cup {pa[i] : i \in 1..Len(pa)}]

(***************************************************************************)
(* Run lifecycle: the handlers of app/api/workflows.py                     *)
(***************************************************************************)
Terminal == {"completed", "failed", "cancelled"}

\* WorkflowState(...) as a handler builds it, with the position of the pass
\* (pc, pending) and its history: the stages whose run_with_retry it awaited
\* (invoked), those that raised (failed), whether an exception left
\* app.ainvoke (crashed), the step at which it saw the run cancelled
\* (cancelled_at), the stages the handler found completed (rebuilt) and the
\* source nodes of the safety evaluations it made (safety_evals), what those
\* evaluations meet (safety_plan) and state.safety_issues.
new_pass(origin, a, b, c, completed) ==
    [pc |-> "new", origin |-> origin, pending |-> <<>>,
     stage_a_outputs |-> a, stage_b_outputs |-> b, stage_c_outputs |-> c,
     completed_nodes |-> completed, errors |-> <<>>,
     invoked |-> {}, failed |-> {}, crashed |-> FALSE, cancelled_at |-> "none",
     rebuilt |-> {completed[i] : i \in 1..Len(completed)},
     safety_evals |-> <<>>, safety_plan |-> NoFindings, safety_issues |-> <<>>]

\* The loop of resume_workflow / update_canvas over list_checkpoints(run_id),
\* which lists the newest row first: rows[i] down to rows[1].
RECURSIVE rebuild_from(_, _, _)
rebuild_from(rows, i, acc) ==
    IF i = 0 THEN acc
    ELSE LET cp == rows[i]
             st == cp.state_json
         IN IF cp.run_id = TheRun /\ HasKey(st, "status")
                 /\ ValueOf(st, "status") = "completed"
              THEN LET node == cp.node_key
                       num  == agent_num(node)
                       out  == dict_entry(ValueOf(st, "output"))
                   IN rebuild_from(rows, i - 1,
                        [completed |-> Append(acc.completed, node),
                         a |-> IF num \in 1..6 THEN (node :> out) @@ acc.a ELSE acc.a,
                         b |-> IF num \in {7, 8, 9} THEN (node :> out) @@ acc.b ELSE acc.b,
                         c |-> IF num = 10 THEN (node :> out) @@ acc.c ELSE acc.c])
              ELSE rebuild_from(rows, i - 1, acc)

rebuild(rows) ==
    rebuild_from(rows, Len(rows), [completed |-> <<>>, a |-> <<>>, b |-> <<>>, c |-> <<>>])

\* The context of a step of pass number k, and its write-back.
context(pass) ==
    [p |-> pass, cps |-> checkpoints, nid |-> next_id, ev |-> events,
     status |-> run_status]

Commit(k, ctx) ==
    /\ passes' = IF k \in DOMAIN passes THEN [passes EXCEPT ![k] = ctx.p]
                 ELSE Append(passes, ctx.p)
    /\ checkpoints' = ctx.cps
    /\ next_id' = ctx.nid
    /\ events' = ctx.ev
    /\ run_status' = ctx.status
    /\ UNCHANGED <<cp_call, cp_returned, cp_sessions, retryVars, libVars>>

InFlight == {k \in DOMAIN passes : passes[k].pc # "done"}
\* A handler may start another pass.
MayStartPass == Len(passes) < MaxPasses /\ Cardinality(InFlight) < MaxInFlight

RECURSIVE failures_upto(_)
failures_upto(k) ==
    IF k = 0 THEN 0 ELSE Cardinality(passes[k].failed) + failures_upto(k - 1)
Failures == failures_upto(Len(passes))

\* start_workflow: create_run_id made the run (pending); mark it running and
\* create the task of the fresh pass.
StartWorkflow ==
    /\ run_status = "pending"
    /\ passes = <<>>
    /\ checkpoints = <<>>
    /\ LET pass == new_pass("start", <<>>, <<>>, <<>>, <<>>)
           ctx  == [context(pass) EXCEPT !.status = "running"]
       IN Commit(1, enter_stage_a(ctx))

\* cancel_workflow past its checks: the run is marked cancelled and the
\* cancellation event is saved.
cancel_accepted ==
    /\ run_status' = "cancelled"
    /\ events' = events (+) SetToBag({<<"workflow", "progress">>})
    /\ passes' = [k \in DOMAIN passes |->
                    IF passes[k].pc # "done"
                       THEN [passes[k] EXCEPT !.cancelled_at = passes[k].pc]
                       ELSE passes[k]]

\* cancel_workflow on a run that is not terminal.
CancelWorkflow ==
    /\ run_status \notin Terminal
    /\ cancel_accepted
    /\ UNCHANGED <<storeVars, retryVars, libVars>>

already_terminal_completed_only(status) == status = "completed"

\* workflow_run.status in {COMPLETED, FAILED, CANCELLED}
already_terminal(status) == status \in {"completed", "failed", "cancelled"}

HTTPResponse(n, run_id, status_code, detail) ==
    [n |-> n, run_id |-> run_id, status_code |-> status_code, detail |-> detail]

\* cancel_workflow as a request for any run id, with its response.
CancelRequest ==
    \E run_id \in {TheRun, "nonexistent-run"} :
      /\ cancel_response.n < MaxCancels
      /\ IF run_id # TheRun
            THEN /\ cancel_response' = HTTPResponse(cancel_response.n + 1, run_id, 404,
                                                   "Workflow run not found")
                 /\ UNCHANGED pipeVars
            ELSE IF already_terminal(run_status)
            THEN /\ cancel_response' = HTTPResponse(cancel_response.n + 1, run_id, 400,
                                                   "Workflow already terminal")
                 /\ UNCHANGED pipeVars
            ELSE /\ cancel_response' = HTTPResponse(cancel_response.n + 1, run_id, 200,
                                                   "cancelled")
                 /\ cancel_accepted
      /\ UNCHANGED <<storeVars, retryVars, normVars, metricVars, safetyVars, eventVars,
                   queueVars, canvasVars>>

\* resume_workflow: rebuild the state from the checkpoints and start a pass.
resume_workflow ==
    /\ run_status \in {"failed", "running", "pending"}
    /\ LET r == rebuild(checkpoints)
           done == {r.completed[i] : i \in 1..Len(r.completed)}
       IN /\ ~({agent_key(i) : i \in AllAgents} \subseteq done)
          /\ LET pass == new_pass("resume", r.a, r.b, r.c, r.completed)
                 ctx  == [emit(context(pass), "workflow", "progress")
                             EXCEPT !.status = "running"]
             IN Commit(Len(passes) + 1, enter_stage_a(ctx))

ResumeWorkflow == MayStartPass /\ resume_workflow

\* update_canvas, the re-queue after the canvas was written: the latest run
\* of the patient is marked running and a pass is started from its checkpoints.
RequeueAfterCanvasEdit ==
    /\ MayStartPass
    /\ LET r == rebuild(checkpoints)
           pass == new_pass("requeue", r.a, r.b, r.c, r.completed)
           ctx  == [emit(context(pass), "agent_7", "progress")
                       EXCEPT !.status = "running"]
       IN Commit(Len(passes) + 1, enter_stage_a(ctx))

\* asyncio.gather(*tasks, return_exceptions=True) of the pending Phase-A agents
\* returned, at most `budget` of them with an exception.
gather_returns(budget) ==
    \E k \in DOMAIN passes :
      /\ passes[k].pc = "stage_a"
      /\ \E F \in SUBSET {passes[k].pending[i] : i \in 1..Len(passes[k].pending)} :
           /\ Cardinality(F) <= budget
           /\ Commit(k, stage_a_done(context(passes[k]), F))

\* asyncio.gather of the pending Phase-A agents returned.
StageADone == gather_returns(MaxFailures - Failures)

\* The same step with any subset of the agents failing terminally.
StageAGathered == gather_returns(6)

\* A later stage's run_with_retry returned or raised.
StageOutcome(k, ok) == ok \/ Failures < MaxFailures

OrchestratorDone ==
    \E k \in DOMAIN passes, ok \in BOOLEAN, ns \in BOOLEAN, np \in BOOLEAN :
      /\ passes[k].pc = "orchestrator"
      /\ StageOutcome(k, ok)
      /\ ok \/ (~ns /\ ~np)
      /\ Commit(k, orchestrator_done(context(passes[k]), ok, ns, np))

SpecialistDone ==
    \E k \in DOMAIN passes, ok \in BOOLEAN :
      /\ passes[k].pc = "specialist"
      /\ StageOutcome(k, ok)
      /\ Commit(k, specialist_done(context(passes[k]), ok))

PharmacistDone ==
    \E k \in DOMAIN passes, ok \in BOOLEAN :
      /\ passes[k].pc = "pharmacist"
      /\ StageOutcome(k, ok)
      /\ Commit(k, pharmacist_done(context(passes[k]), ok))

CompilerDone ==
    \E k \in DOMAIN passes, ok \in BOOLEAN :
      /\ passes[k].pc = "stage_c"
      /\ StageOutcome(k, ok)
      /\ Commit(k, stage_c_done(context(passes[k]), ok))

\* Faulty variant: the errors are not looked at.
terminal_status_completed(current_status, errors) ==
    IF current_status = "cancelled" THEN current_status ELSE "completed"

\* run_workflow_async after app.ainvoke returned: the terminal status write.
terminal_status(current_status, errors) ==
    IF current_status = "cancelled" THEN current_status
    ELSE IF errors # <<>> THEN "failed" ELSE "completed"

PassEnd ==
    \E k \in DOMAIN passes :
      /\ passes[k].pc = "finalize"
      /\ run_status' = terminal_status(run_status, passes[k].errors)
      /\ passes' = [passes EXCEPT ![k].pc = "done"]
      /\ UNCHANGED <<events, storeVars, retryVars, libVars>>

(***************************************************************************)
(* Output normalizer: validate_agent_output                                *)
(*                                                                         *)
(* Python values are tagged records.  A heading string is the sequence of  *)
(* its whitespace-separated words and whether it equals those words joined *)
(* by single blanks (tidy).  A word is a stem in one of its letter cases.  *)
(***************************************************************************)
Missing == [t |-> "missing"]    \* the key is not in the dict
NoneV   == [t |-> "none"]       \* None
IntV    == [t |-> "int"]        \* a non-zero int
ListV(items) == [t |-> "list", items |-> items]
StrV(words, tidy) == [t |-> "str", words |-> words, tidy |-> tidy]

\* Stems: "htn" and "poa" are alphabetic words, "(poa)" is the bracketed tag,
\* "#" with its number a numeric suffix, "n_apos" the letter U+0149, whose capitalized
\* form (U+02BC "N") capitalize() changes once more (to U+02BC "n").
Word(stem, form) == [stem |-> stem, form |-> form, n |-> 0]
POATag == Word("(poa)", "upper")

\* str.isalpha() of a word
isalpha(w) == w.stem \in {"htn", "poa", "n_apos"}

\* str.capitalize() of an alphabetic word
capitalize(w) ==
    IF w.stem = "n_apos"
       THEN Word(w.stem, IF w.form = "single" THEN "upper" ELSE "lower")
       ELSE Word(w.stem, "cap")

\* str.lower() of a word
lower_word(w) ==
    IF w.stem = "n_apos" THEN Word(w.stem, IF w.form = "single" THEN "single" ELSE "lower")
    ELSE IF w.stem \in {"htn", "poa", "(poa)"} THEN Word(w.stem, "lower")
    ELSE w

\* heading.lower()
lower(h) == StrV([i \in 1..Len(h.words) |-> lower_word(h.words[i])], h.tidy)

\* "POA" in heading.upper()
has_poa(h) == \E i \in 1..Len(h.words) : h.words[i].stem \in {"poa", "(poa)"}

\* bool(heading) of a string: the empty string is the only falsy one
truthy_str(h) == h.words # <<>> \/ ~h.tidy

\* heading + " (POA)" and f"{heading} #{suffix}"
add_poa(h) == StrV(Append(h.words, POATag), h.tidy)
add_suffix(h, k) ==
    StrV(Append(h.words, [stem |-> "#", form |-> "plain", n |-> k]), h.tidy)

\* " ".join(w.capitalize() if w.isalpha() else w for w in heading.split())
title_case(h) ==
    StrV([i \in 1..Len(h.words) |->
            IF isalpha(h.words[i]) THEN capitalize(h.words[i]) ELSE h.words[i]], TRUE)

\* Faulty variant: the first suffix is taken whether it is free or not.
free_suffix_first(h, k, seen) == k

\* The while loop that looks for a free numeric suffix.
RECURSIVE free_suffix(_, _, _)
free_suffix(h, k, seen) ==
    IF lower(add_suffix(h, k)) \in seen THEN free_suffix(h, k + 1, seen) ELSE k

\* A plan item string: whether, stripped, it starts with "[]" and ends with
\* ".", and whether it carries surrounding blanks.
ItemV(body, bracket, period, padded) ==
    [t |-> "str", body |-> body, bracket |-> bracket, period |-> period,
     padded |-> padded]

\* The loop over the plan items: non-strings are left out, strings are
\* stripped, bracketed and terminated.
RECURSIVE plan_items(_, _, _, _)
plan_items(items, i, new_plan, changed) ==
    IF i > Len(items) THEN [new_plan |-> new_plan, changed |-> changed]
    ELSE LET item == items[i] IN
         IF item.t # "str" THEN plan_items(items, i + 1, new_plan, changed)
         ELSE plan_items(items, i + 1,
                         Append(new_plan, ItemV(item.body, TRUE, TRUE, FALSE)),
                         changed \/ ~item.bracket \/ ~item.period)

\* A problem entry {"heading": .., "plan": ..} and an output dict.
ProblemV(heading, plan) == [t |-> "dict", heading |-> heading, plan |-> plan]
OutputV(problems, content_md) ==
    [t |-> "dict", problems |-> problems, content_md |-> content_md]

\* What a call does: it returns the triple or an exception leaves it.
Returned(output, issues, repaired) ==
    [kind |-> "return", output |-> output, issues |-> issues, repaired |-> repaired]
Raised(error) == [kind |-> "raise", error |-> error]

\* The body of the loop over the problems for one dict entry p: the heading
\* rules (POA tag, title case, duplicate suffix), then the plan rules.
normalize_problem(p, seen) ==
    LET h0 == IF p.heading.t \in {"missing", "none"} THEN StrV(<<>>, TRUE)
              ELSE p.heading
    IN IF h0.t # "str" THEN Raised("AttributeError")
       ELSE
       LET do == truthy_str(h0)
           i1 == IF do /\ ~has_poa(h0) THEN <<[msg |-> "Added POA tag", to |-> h0]>>
                 ELSE <<>>
           h1 == IF do /\ ~has_poa(h0) THEN add_poa(h0) ELSE h0
           tc == title_case(h1)
           i2 == IF do /\ tc # h1 THEN <<[msg |-> "Title-cased", to |-> h1]>> ELSE <<>>
           h2 == IF do THEN tc ELSE h1
           dup == do /\ lower(h2) \in seen
           h3 == IF dup THEN add_suffix(h2, free_suffix(h2, 2, seen)) ELSE h2
           i3 == IF dup THEN <<[msg |-> "Disambiguated", to |-> h2]>> ELSE <<>>
           heading == IF i1 \o i2 \o i3 # <<>> THEN h3 ELSE p.heading
           pl == IF p.plan.t = "list"
                    THEN plan_items(p.plan.items, 1, <<>>, FALSE)
                    ELSE [new_plan |-> <<>>, changed |-> FALSE]
           i4 == IF pl.changed
                    THEN <<[msg |-> "Bracketed plan items", to |-> NoneV],
                           [msg |-> "Normalized plan item formatting", to |-> NoneV]>>
                    ELSE <<>>
           plan == IF pl.changed THEN ListV(pl.new_plan) ELSE p.plan
       IN [kind |-> "ok", p |-> ProblemV(heading, plan),
           seen |-> IF do THEN seen \cup {lower(h3)} ELSE seen,
           issues |-> i1 \o i2 \o i3 \o i4]

\* for p in problems: entries that are not dicts are passed over.
RECURSIVE normalize_problems(_, _, _, _, _)
normalize_problems(items, i, seen, done, issues) ==
    IF i > Len(items) THEN [kind |-> "ok", items |-> done, issues |-> issues]
    ELSE IF items[i].t # "dict"
       THEN normalize_problems(items, i + 1, seen, Append(done, items[i]), issues)
    ELSE LET r == normalize_problem(items[i], seen) IN
         IF r.kind = "raise" THEN r
         ELSE normalize_problems(items, i + 1, r.seen, Append(done, r.p),
                                 issues \o r.issues)

\* content_md: whether it contains "Physical Exam", its lines and whether it
\* ends with a newline.  A line is a markdown heading, blank, a bullet
\* ("- x", "* x"), or a line that needs the bullet prefix: plain text, a
\* glyph or tight dash before the text, or nothing but dashes.
MdV(has_pe, lines, newline) ==
    [t |-> "str", has_pe |-> has_pe, lines |-> lines, newline |-> newline]
LineV(kind, body) == [kind |-> kind, body |-> body]

\* "- " + ln.lstrip("-•* ") for the lines that do not start with a bullet
bullet_line(ln) ==
    IF ln.kind \in {"plain", "glyph"} THEN LineV("dash", ln.body)
    ELSE IF ln.kind = "dashes" THEN LineV("dash", "")
    ELSE ln

\* The Physical Exam rule of agent 4.
normalize_exam(output) ==
    LET md == IF output.content_md.t = "missing" THEN MdV(FALSE, <<>>, FALSE)
              ELSE output.content_md
    IN IF md.t # "str" THEN Raised("TypeError")
       ELSE LET new_lines == [i \in 1..Len(md.lines) |-> bullet_line(md.lines[i])]
            IN IF md.has_pe /\ new_lines # md.lines
                  THEN Returned([output EXCEPT !.content_md = MdV(TRUE, new_lines, FALSE)],
                                <<[msg |-> "Normalized Physical Exam bullet formatting",
                                   to |-> NoneV]>>, TRUE)
                  ELSE Returned(output, <<>>, FALSE)

\* The problem rules of agent 7.
normalize_orchestrator(output) ==
    IF output.problems.t # "list" THEN Returned(output, <<>>, FALSE)
    ELSE LET r == normalize_problems(output.problems.items, 1, {}, <<>>, <<>>) IN
         IF r.kind = "raise" THEN r
         ELSE Returned([output EXCEPT !.problems = ListV(r.items)],
                       r.issues, r.issues # <<>>)

\* validate_agent_output(agent_no, output_dict)
validate_agent_output(agent_no, output_dict) ==
    IF output_dict.t \notin {"none", "dict"} THEN Raised("TypeError")
    ELSE LET output == IF output_dict.t = "none" THEN OutputV(Missing, Missing)
                       ELSE output_dict
         IN IF agent_no = 4 THEN normalize_exam(output)
            ELSE IF agent_no = 7 THEN normalize_orchestrator(output)
            ELSE Returned(output, <<>>, FALSE)

\* One more application of the normalizer: to the raw output first, then to
\* what the previous application returned.
Validate ==
    /\ n_applied < MaxApplications
    /\ n_applied > 0 => n_result.kind = "return"
    /\ n_result' = validate_agent_output(n_agent,
                        IF n_applied = 0 THEN n_input ELSE n_result.output)
    /\ n_applied' = n_applied + 1
    /\ UNCHANGED <<n_agent, n_input>>
    /\ UNCHANGED <<storeVars, retryVars, pipeVars, metricVars, safetyVars, eventVars, cancelVars, queueVars, canvasVars>>

(***************************************************************************)
(* persist_node_metrics (app/services/checkpointer.py)                     *)
(***************************************************************************)
\* A node_metrics dict: the keys it holds and their values.
MetricsV(keys, attempts, retries, duration_ms, fallback_used) ==
    [t |-> "dict", keys |-> keys, attempts |-> attempts, retries |-> retries,
     duration_ms |-> duration_ms, fallback_used |-> fallback_used]

\* node_metrics.get(key, default)
metrics_get(node_metrics, key, default) ==
    IF key \in node_metrics.keys THEN node_metrics[key] ELSE default

\* bool(node_metrics): None and the empty dict are falsy
truthy_metrics(node_metrics) == node_metrics.t = "dict" /\ node_metrics.keys # {}

Null == -1      \* None in a nullable duration column
NoCreatinine == -1      \* labs.get("creatinine") when the key is absent
CreatinineLimit == 15   \* 1.5, in tenths

\* The RunNodeMetrics row built from the arguments.
metrics_record(run_id, node_key, status, node_metrics) ==
    LET duration_ms == metrics_get(node_metrics, "duration_ms", 0) IN
    [run_id |-> run_id, node_key |-> node_key, status |-> status,
     success_duration_ms |-> IF status = "completed" THEN duration_ms ELSE Null,
     failure_duration_ms |-> IF status = "failed" THEN duration_ms ELSE Null,
     attempts |-> metrics_get(node_metrics, "attempts", 0),
     retries |-> metrics_get(node_metrics, "retries", 0),
     fallback_used |-> IF metrics_get(node_metrics, "fallback_used", FALSE) THEN 1 ELSE 0]

metrics_existing_any_node(rows, run_id, node_key) ==
    \E i \in 1..Len(rows) : rows[i].run_id = run_id

\* The lookup of a row for run_id + node_key.
metrics_existing(rows, run_id, node_key) ==
    \E i \in 1..Len(rows) : rows[i].run_id = run_id /\ rows[i].node_key = node_key

\* persist_node_metrics(run_id, node_key, status, node_metrics): the table after it
persist_node_metrics(rows, run_id, node_key, status, node_metrics) ==
    IF ~truthy_metrics(node_metrics) THEN rows
    ELSE IF metrics_existing(rows, run_id, node_key) THEN rows
    ELSE Append(rows, metrics_record(run_id, node_key, status, node_metrics))

MetricsRuns == {"run_1", "run_2"}
MetricsNodes == {"agent_1", "agent_2"}
MetricsInputs ==
    {NoneV, MetricsV({}, 0, 0, 0, FALSE),
     MetricsV({"attempts", "retries", "duration_ms", "fallback_used"}, 2, 1, 1500, FALSE),
     MetricsV({"duration_ms", "fallback_used"}, 0, 0, 2000, TRUE)}

PersistNodeMetrics ==
    \E run_id \in MetricsRuns, node_key \in MetricsNodes,
       status \in {"completed", "failed"}, node_metrics \in MetricsInputs :
      /\ Len(metrics_calls) < MaxPersists
      /\ run_node_metrics' =
             persist_node_metrics(run_node_metrics, run_id, node_key, status, node_metrics)
      /\ metrics_calls' = Append(metrics_calls,
             [run_id |-> run_id, node_key |-> node_key, status |-> status,
              metrics |-> node_metrics])
      /\ UNCHANGED <<storeVars, retryVars, pipeVars, normVars, safetyVars, eventVars, cancelVars, queueVars, canvasVars>>

(***************************************************************************)
(* Safety rules (app/safety/rules.py)                                      *)
(***************************************************************************)
\* The keywords the rules look for that a text contains, in lower case.
mentions(text) ==
    CASE text = "warfarin 5mg" -> {"warfarin"}
      [] text = "amiodarone 200mg" -> {"amiodarone"}
      [] text = "metformin 500mg" -> {"metformin"}
      [] text = "heparin 5000u" -> {"heparin"}
      [] text = "NSAID ibuprofen 400mg" -> {"nsaid"}
      [] OTHER -> {}

\* c.lower() of a condition
lower_condition(c) == IF c = "CKD" THEN "ckd" ELSE c

Elements(seq) == {seq[i] : i \in 1..Len(seq)}

SafetyIssue(rule_id, message, severity) ==
    [rule_id |-> rule_id, message |-> message, severity |-> severity, node_key |-> ""]

\* VTEProphylaxisRule.applies
vte_prophylaxis(state) ==
    LET all_conditions == Elements(state.conditions) \cup Elements(state.problems)
        surgical_risk == all_conditions \cap {"surgery_planned", "surgery", "surgical"} # {}
        medical_risk ==
            all_conditions \cap {"pneumonia", "immobility", "cancer", "heart_failure"} # {}
        all_meds == state.medications \o state.orders
        has_anticoagulation ==
            \E i \in 1..Len(all_meds) :
               mentions(all_meds[i]) \cap {"anticoagul", "heparin", "warfarin"} # {}
    IN IF (surgical_risk \/ medical_risk) /\ ~has_anticoagulation
          THEN <<SafetyIssue("vte_prophylaxis",
                             <<"VTE prophylaxis should be considered",
                               IF surgical_risk THEN "surgical" ELSE "medical">>,
                             "warning")>>
          ELSE <<>>

\* RenalDosingRule.applies: one issue per medication that needs adjustment.
\* creatinine is absent or a number, in tenths.
RECURSIVE renal_issues(_, _, _)
renal_issues(medications, i, creatinine) ==
    IF i > Len(medications) THEN <<>>
    ELSE (IF mentions(medications[i]) \cap {"metformin", "gabapentin", "atenolol"} # {}
             THEN <<SafetyIssue("renal_dosing",
                                <<"Consider renal dose adjustment", medications[i],
                                  creatinine>>, "warning")>>
             ELSE <<>>)
         \o renal_issues(medications, i + 1, creatinine)
renal_dosing(state) ==
    IF state.creatinine # NoCreatinine /\ state.creatinine > CreatinineLimit
       THEN renal_issues(state.medications, 1, state.creatinine)
       ELSE <<>>

\* NSAIDContraindicationRule.applies
nsaid_ckd_contraindication(state) ==
    LET has_ckd == "ckd" \in {lower_condition(c) : c \in Elements(state.conditions)}
        nsaid_ordered ==
            \E i \in 1..Len(state.orders) : "nsaid" \in mentions(state.orders[i])
    IN IF has_ckd /\ nsaid_ordered
          THEN <<SafetyIssue("nsaid_ckd_contraindication",
                             <<"NSAID order flagged in CKD">>, "error")>>
          ELSE <<>>

\* DrugInteractionRule.applies
warfarin_amiodarone_interaction(state) ==
    LET all_meds == state.medications \o state.plan_medications
        has_warfarin == \E i \in 1..Len(all_meds) : "warfarin" \in mentions(all_meds[i])
        has_amiodarone == \E i \in 1..Len(all_meds) : "amiodarone" \in mentions(all_meds[i])
    IN IF has_warfarin /\ has_amiodarone
          THEN <<SafetyIssue("warfarin_amiodarone_interaction",
                             <<"Monitor INR closely (warfarin + amiodarone)">>, "warning")>>
          ELSE <<>>

\* TestCustomRule.applies (the rule the registry test registers)
test_custom(state) ==
    IF state.test_flag
       THEN <<SafetyIssue("test_custom", <<"Test flag detected">>, "info")>>
       ELSE <<>>

\* rule.applies(state) of the rule registered under rule_id
applies(rule_id, state) ==
    CASE rule_id = "vte_prophylaxis" -> vte_prophylaxis(state)
      [] rule_id = "renal_dosing" -> renal_dosing(state)
      [] rule_id = "nsaid_ckd_contraindication" -> nsaid_ckd_contraindication(state)
      [] rule_id = "warfarin_amiodarone_interaction" -> warfarin_amiodarone_interaction(state)
      [] rule_id = "test_custom" -> test_custom(state)

tag_issue_never(issue, node_key) == issue

\* if not issue.node_key: issue.node_key = node_key
tag_issue(issue, node_key) ==
    IF issue.node_key = "" THEN [issue EXCEPT !.node_key = node_key] ELSE issue

\* SafetyRuleRegistry.check_all_rules: the loop over self._rules.values()
RECURSIVE check_all_rules(_, _, _, _)
check_all_rules(rules, i, state, node_key) ==
    IF i > Len(rules) THEN <<>>
    ELSE LET rule_issues == applies(rules[i], state) IN
         [j \in 1..Len(rule_issues) |-> tag_issue(rule_issues[j], node_key)]
             \o check_all_rules(rules, i + 1, state, node_key)

NotCalled == [kind |-> "none"]

\* check_safety_rules(state, node_key) on the global registry
CheckSafetyRules ==
    /\ s_issues = NotCalled
    /\ s_issues' = [kind |-> "return",
                    issues |-> check_all_rules(s_rules, 1, s_state, s_node_key)]
    /\ UNCHANGED <<s_rules, s_state, s_node_key>>
    /\ UNCHANGED <<storeVars, retryVars, pipeVars, normVars, metricVars, eventVars, cancelVars, queueVars, canvasVars>>

(***************************************************************************)
(* save_event (app/services/checkpointer.py)                               *)
(***************************************************************************)
\* What the broadcast attempt of one call meets: the step that raises, if
\* any (the patient lookup, the conversion of the event type, the building
\* of the message), whether the run has a patient, and whether an event
\* loop is running.
Notification(fault, patient, loop) == [fault |-> fault, patient |-> patient, loop |-> loop]
NoFault == "none"

\* The exception the broadcast attempt raises, "none" if it raises none.
broadcast_error(notify) ==
    IF notify.fault = "lookup" THEN "SQLAlchemyError"
    ELSE IF notify.patient = "none" THEN "none"
    ELSE IF notify.fault = "event_type" THEN "ValueError"
    ELSE IF notify.fault = "message" THEN "ValidationError"
    ELSE IF notify.loop = "none" THEN "RuntimeError"
    ELSE "none"

\* Whether loop.create_task was reached.
task_created(notify) ==
    /\ notify.fault = NoFault
    /\ notify.patient = "found"
    /\ notify.loop = "running"

broadcast_handled_no_loop_only(error) == error = "RuntimeError"

\* except RuntimeError: pass, and around it except Exception: logger.debug
broadcast_handled(error) ==
    error \in {"RuntimeError", "SQLAlchemyError", "ValueError", "ValidationError"}

\* save_event: the row is committed, then the broadcast is attempted.
save_event(rows, nid, run_id, node_key, event_type, notify) ==
    LET event == [id |-> nid, run_id |-> run_id, node_key |-> node_key,
                  event_type |-> event_type]
        error == broadcast_error(notify)
    IN [rows |-> Append(rows, event), next_id |-> nid + 1,
        task |-> task_created(notify),
        result |-> IF error # "none" /\ ~broadcast_handled(error)
                      THEN [kind |-> "raise", error |-> error]
                      ELSE [kind |-> "return", event_id |-> nid]]

Notifications ==
    {Notification(f, p, l) : f \in {NoFault, "lookup", "event_type", "message"},
                             p \in {"found", "none"}, l \in {"running", "none"}}
NoEventCall == [n |-> 0]

\* One call of PostgresCheckpointer.save_event.
SaveEvent ==
    \E node_key \in {"agent_7", "workflow"}, event_type \in {"started", "completed"},
       notify \in Notifications :
      LET res == save_event(event_rows, event_next_id, TheRun, node_key, event_type,
                            notify)
      IN /\ event_call.n < MaxEvents
         /\ event_rows' = res.rows
         /\ event_next_id' = res.next_id
         /\ event_call' = [n |-> event_call.n + 1, node_key |-> node_key,
                           event_type |-> event_type, notify |-> notify,
                           result |-> res.result]
         /\ broadcasts' = IF res.task
                             THEN Append(broadcasts, [event_id |-> event_next_id,
                                                      state |-> "scheduled"])
                             ELSE broadcasts
         /\ UNCHANGED <<storeVars, retryVars, pipeVars, normVars, metricVars, safetyVars, cancelVars, queueVars, canvasVars>>

\* A broadcast task ends: the message was sent, or sending raised in the task.
BroadcastEnds ==
    \E i \in 1..Len(broadcasts), outcome \in {"sent", "raised"} :
      /\ broadcasts[i].state = "scheduled"
      /\ broadcasts' = [broadcasts EXCEPT ![i].state = outcome]
      /\ UNCHANGED <<event_rows, event_next_id, event_call>>
      /\ UNCHANGED <<storeVars, retryVars, pipeVars, normVars, metricVars, safetyVars, cancelVars, queueVars, canvasVars>>

(***************************************************************************)
(* Initial states and specifications                                       *)
(***************************************************************************)
InitStoreVars ==
    /\ checkpoints = <<>>
    /\ next_id = 1
    /\ cp_call = NoCall
    /\ cp_returned = {}
    /\ cp_sessions = <<>>

InitRetryVars ==
    /\ r_pc = "idle"
    /\ r_attempt = 0
    /\ r_attempts = 0
    /\ r_last_error = NoError
    /\ r_elapsed = 0
    /\ r_calls = [process |-> 0, fallback |-> 0, sleep |-> 0]
    /\ r_events = <<>>
    /\ r_trace = <<>>
    /\ r_fb = "none"
    /\ r_outcome = NoOutcome

InitPipeVars ==
    /\ run_status = "pending"
    /\ events = EmptyBag
    /\ passes = <<>>

NoResult == [kind |-> "none"]

InitNormVars ==
    /\ n_agent = 0
    /\ n_input = NoneV
    /\ n_result = NoResult
    /\ n_applied = 0

InitMetricVars ==
    /\ run_node_metrics = <<>>
    /\ metrics_calls = <<>>

DefaultRules == <<"vte_prophylaxis", "renal_dosing", "nsaid_ckd_contraindication",
                  "warfarin_amiodarone_interaction">>

SafetyState(conditions, problems, medications, orders, plan_medications,
            creatinine, test_flag) ==
    [conditions |-> conditions, problems |-> problems, medications |-> medications,
     orders |-> orders, plan_medications |-> plan_medications,
     creatinine |-> creatinine, test_flag |-> test_flag]

InitSafetyVars ==
    /\ s_rules = DefaultRules
    /\ s_state = SafetyState(<<>>, <<>>, <<>>, <<>>, <<>>, NoCreatinine, FALSE)
    /\ s_node_key = ""
    /\ s_issues = NotCalled

InitEventVars ==
    /\ event_rows = <<>>
    /\ event_next_id = 1
    /\ event_call = NoEventCall
    /\ broadcasts = <<>>

InitCancelVars == cancel_response = HTTPResponse(0, "", 0, "")

NoQueue == [id |-> 0, items |-> <<>>, unfinished |-> 0]

InitQueueVars ==
    /\ q_running = FALSE
    /\ q_queue = NoQueue
    /\ q_worker_task = 0
    /\ q_workers = <<>>
    /\ q_stopping = [n |-> 0, awaits |-> {}]
    /\ q_tasks = <<>>

NoCanvas == [exists |-> FALSE, version |-> 0, content_md |-> "", updated_by |-> ""]

InitCanvasVars ==
    /\ canvas = NoCanvas
    /\ canvas_sessions = <<>>
    /\ canvas_log = <<>>

InitLibVars ==
    /\ InitNormVars /\ InitMetricVars /\ InitSafetyVars /\ InitEventVars
    /\ InitCancelVars /\ InitQueueVars /\ InitCanvasVars

\* Checkpoints a run may already hold when it is resumed: none, or the first
\* three Phase-A stages completed, saved as tests/test_resume_progress.py
\* saves them: {"status": "completed", "output": {"dummy": True}}.
seed_state == <<<<"status", "completed">>, <<"output", [dummy |-> TRUE]>>>>

RECURSIVE seed_rows(_, _)
seed_rows(n, rows) ==
    IF n = 0 THEN rows
    ELSE seed_rows(n - 1, <<Checkpoint(n, TheRun, agent_key(n), seed_state)>> \o rows)
SeedSizes == {0, 3}

Init ==
    /\ \E n \in SeedSizes : checkpoints = seed_rows(n, <<>>) /\ next_id = n + 1
    /\ cp_call = NoCall
    /\ cp_returned = {}
    /\ cp_sessions = <<>>
    /\ InitRetryVars
    /\ InitPipeVars
    /\ InitLibVars

Next ==
    \/ StartWorkflow
    \/ CancelWorkflow
    \/ ResumeWorkflow
    \/ RequeueAfterCanvasEdit
    \/ StageADone
    \/ OrchestratorDone
    \/ SpecialistDone
    \/ PharmacistDone
    \/ CompilerDone
    \/ PassEnd

Spec == Init /\ [][Next]_vars

InitStore == InitStoreVars /\ InitRetryVars /\ InitPipeVars /\ InitLibVars
NextStore == SaveCheckpoint
SpecStore == InitStore /\ [][NextStore]_vars

\* Every operation of the store that writes the table.
InitStoreOps == InitStoreVars /\ InitRetryVars /\ InitPipeVars /\ InitLibVars
NextStoreOps ==
    \/ SaveCheckpoint
    \/ ClearCheckpoints
SpecStoreOps == InitStoreOps /\ [][NextStoreOps]_vars

InitRetry == InitStoreVars /\ InitRetryVars /\ InitPipeVars /\ InitLibVars
NextRetry ==
    \/ RetryStart
    \/ ProcessReturns
    \/ ProcessRaises
    \/ SleepDone
    \/ FallbackReturns
    \/ FallbackReturnsNone
    \/ FallbackRaises
SpecRetry == InitRetry /\ [][NextRetry]_vars

\* A fresh run in which any of the Phase-A agents may fail terminally.
InitPhaseA == InitStoreVars /\ InitRetryVars /\ InitPipeVars /\ InitLibVars
NextPhaseA ==
    \/ StartWorkflow
    \/ StageAGathered
    \/ OrchestratorDone
    \/ SpecialistDone
    \/ PharmacistDone
    \/ CompilerDone
    \/ PassEnd
SpecPhaseA == InitPhaseA /\ [][NextPhaseA]_vars

\* Raw outputs handed to the normalizer.  Headings of up to MaxWords words,
\* with single or irregular spacing; plans; problem lists of up to
\* MaxProblems entries; Physical Exam texts of up to MaxLines lines.
Seqs(S, n) == UNION {[1..m -> S] : m \in 0..n}
Words == {Word("htn", "lower"), Word("htn", "cap"), POATag, Word("n_apos", "single")}
Headings ==
    {Missing, NoneV, IntV}
        \cup {StrV(ws, tidy) : ws \in Seqs(Words, MaxWords), tidy \in BOOLEAN}
Plans ==
    {Missing, NoneV,
     ListV(<<IntV, ItemV("labs", FALSE, FALSE, FALSE)>>),
     ListV(<<ItemV("labs", TRUE, TRUE, TRUE)>>),
     ListV(<<ItemV("labs", TRUE, FALSE, FALSE), ItemV("ecg", TRUE, TRUE, FALSE)>>)}
RepeatedHeadings == {Missing, StrV(<<Word("htn", "lower")>>, TRUE),
                     StrV(<<Word("htn", "cap"), POATag>>, TRUE)}
ProblemLists ==
    {<<>>}
        \cup {<<ProblemV(h, pl)>> : h \in Headings, pl \in Plans}
        \cup {<<p, q>> : p, q \in {ProblemV(h, Missing) : h \in Headings} \cup {IntV}}
        \cup {[i \in 1..MaxProblems |-> ProblemV(hs[i], Missing)] :
                  hs \in [1..MaxProblems -> RepeatedHeadings]}
Lines == {LineV("heading", "Exam"), LineV("blank", ""), LineV("dash", "x"),
          LineV("star", "x"), LineV("plain", "x"), LineV("glyph", "x"),
          LineV("dashes", "")}
Markdowns ==
    {Missing, NoneV, IntV}
        \cup {MdV(pe, ls, nl) : pe \in BOOLEAN, ls \in Seqs(Lines, MaxLines),
                                nl \in BOOLEAN}
RawOutputs(agent_no) ==
    {NoneV}
        \cup (IF agent_no = 7
                THEN {OutputV(NoneV, Missing), OutputV(Missing, Missing)}
                       \cup {OutputV(ListV(ps), Missing) : ps \in ProblemLists}
                ELSE {OutputV(Missing, md) : md \in Markdowns})

InitNorm ==
    /\ InitStoreVars /\ InitRetryVars /\ InitPipeVars
    /\ n_agent \in {1, 4, 7}
    /\ n_input \in RawOutputs(n_agent)
    /\ n_result = NoResult
    /\ n_applied = 0
    /\ InitMetricVars /\ InitSafetyVars /\ InitEventVars /\ InitCancelVars
    /\ InitQueueVars /\ InitCanvasVars
NextNorm == Validate
SpecNorm == InitNorm /\ [][NextNorm]_vars

InitMetrics == InitStoreVars /\ InitRetryVars /\ InitPipeVars /\ InitLibVars
NextMetrics == PersistNodeMetrics
SpecMetrics == InitMetrics /\ [][NextMetrics]_vars

\* States the rules are checked against: the lists hold up to MaxItems
\* entries; the registry holds the default rules, or those and a custom one.
SafetyStates ==
    {SafetyState(cs, <<>>, ms, os, ps, cr, flag) :
        cs \in Seqs({"ckd", "CKD", "surgery_planned", "pneumonia"}, MaxItems),
        ms \in Seqs({"warfarin 5mg", "metformin 500mg", "heparin 5000u"}, MaxItems),
        os \in {<<>>, <<"NSAID ibuprofen 400mg">>, <<"cbc">>},
        ps \in {<<>>, <<"amiodarone 200mg">>},
        cr \in {NoCreatinine, 12, 21},
        flag \in BOOLEAN}
InitSafety ==
    /\ InitStoreVars /\ InitRetryVars /\ InitPipeVars
    /\ InitNormVars /\ InitMetricVars /\ InitEventVars /\ InitCancelVars
    /\ InitQueueVars /\ InitCanvasVars
    /\ s_rules \in {DefaultRules, Append(DefaultRules, "test_custom")}
    /\ s_state \in SafetyStates
    /\ s_node_key \in {"agent_6", ""}
    /\ s_issues = NotCalled
NextSafety == CheckSafetyRules
SpecSafety == InitSafety /\ [][NextSafety]_vars

\* A fresh run and the cancel requests made while and after it runs.
InitCancel == InitStoreVars /\ InitRetryVars /\ InitPipeVars /\ InitLibVars
NextCancel ==
    \/ StartWorkflow
    \/ CancelRequest
    \/ StageADone
    \/ OrchestratorDone
    \/ SpecialistDone
    \/ PharmacistDone
    \/ CompilerDone
    \/ PassEnd
SpecCancel == InitCancel /\ [][NextCancel]_vars

InitEvents == InitStoreVars /\ InitRetryVars /\ InitPipeVars /\ InitLibVars
NextEvents ==
    \/ SaveEvent
    \/ BroadcastEnds
SpecEvents == InitEvents /\ [][NextEvents]_vars

(***************************************************************************)
(* Properties of the checkpoint store (under SpecStore)                    *)
(***************************************************************************)
\* The content of a state dict: its key/value pairs, whatever their order.
content(state) == {state[i] : i \in 1..Len(state)}

\* The rows of (run_id, node_key) that hold the content of `state`.
rows_with(rows, run_id, node_key, state) ==
    {i \in 1..Len(rows) : /\ rows[i].run_id = run_id
                          /\ rows[i].node_key = node_key
                          /\ content(rows[i].state_json) = content(state)}

AlwaysRetryable ==
    \A i \in 1..Len(r_trace) : r_trace[i] \in {"Transient", "Other"}

\* C2: retry exhaustion.  While every attempt raises a retryable error
\* (Transient or unclassified) process is never invoked more than 4 times and
\* the fallback is invoked only after the 4th attempt failed; when the
\* invocation is over process was invoked exactly 4 times and the fallback
\* exactly once.
C2_RetryExhaustion ==
    AlwaysRetryable =>
        /\ r_calls.process <= 4
        /\ r_calls.fallback = (IF Len(r_trace) = 4 THEN 1 ELSE 0)
        /\ r_pc \in {"fallback", "done"} =>
              /\ r_calls.process = 4
              /\ r_calls.fallback = 1
              /\ Len(r_trace) = 4

C2_Witness ==
    /\ r_pc = "done"
    /\ AlwaysRetryable
    /\ Len(r_trace) = 4
    /\ \E i, j \in 1..4 : r_trace[i] = "Transient" /\ r_trace[j] = "Other"
    /\ r_calls.process = 4
    /\ r_calls.fallback = 1

\* C3: Permanent short-circuit.  When process raises a Permanent error on its
\* first invocation it is not invoked again: no backoff sleep is taken, no
\* retry is recorded, and the fallback is invoked exactly once.  Whichever
\* attempt raises a Permanent error is the last one.
C3_PermanentShortCircuit ==
    /\ (Len(r_trace) >= 1 /\ r_trace[1] = "Permanent") =>
          /\ Len(r_trace) = 1
          /\ r_calls.process = 1
          /\ r_calls.sleep = 0
          /\ r_calls.fallback = 1
          /\ r_pc \in {"fallback", "done"}
          /\ \A i \in 1..Len(r_events) : r_events[i].fallback
    /\ \A i \in 1..Len(r_trace) :
          r_trace[i] = "Permanent" =>
              /\ i = Len(r_trace)
              /\ r_calls.process = i
              /\ r_calls.fallback = 1

C3_Witness ==
    /\ r_pc = "done"
    /\ r_trace = <<"Permanent">>
    /\ r_calls = [process |-> 1, fallback |-> 1, sleep |-> 0]

\* The outcome recorded for the invocation is well formed.
OutcomeOk ==
    /\ (r_pc = "done") <=> (r_outcome # NoOutcome)
    /\ r_outcome.kind \in {"none", "success", "raise"}
    /\ r_calls.fallback <= 1
    /\ (\E i \in 1..Len(r_trace) : r_trace[i] = "ok") =>
          /\ r_calls.fallback = 0
          /\ r_fb = "none"
          /\ r_outcome.kind = "success"
          /\ r_outcome.source = "primary"
    /\ r_outcome.kind = "success" =>
          LET m == r_outcome.metrics IN
          /\ r_outcome.source \in {"primary", "fallback"}
          /\ r_outcome.source = "primary" <=> r_trace[Len(r_trace)] = "ok"
          /\ r_outcome.source = "fallback" <=> r_fb = "returned"
          /\ m.attempts \in 1..4
          /\ m.attempts = r_calls.process
          /\ m.retries = m.attempts - 1
          /\ m.duration_ms >= 0
          /\ m.fallback_used <=> r_outcome.source = "fallback"
    /\ r_outcome.kind = "raise" =>
          /\ r_fb \in {"returned_none", "raised"}
          /\ r_trace[Len(r_trace)] # "ok"

\* C4: every invocation of run_with_retry ends in exactly one terminal
\* outcome (primary success, fallback success or a raised failure) which
\* nothing changes afterwards; the fallback is never invoked after a primary
\* success; a returned result carries metrics with attempts in 1..4,
\* retries = attempts - 1, a duration, and fallback_used true exactly when the
\* result came from the fallback.
C4_OneTerminalOutcome ==
    /\ []OutcomeOk
    /\ [][r_outcome # NoOutcome => UNCHANGED retryVars]_vars

\* A fallback success after three failed attempts and two backoff sleeps.
C4_Witness ==
    /\ r_pc = "done"
    /\ r_outcome.kind = "success"
    /\ r_outcome.source = "fallback"
    /\ r_outcome.metrics.attempts = 3
    /\ r_outcome.metrics.retries = 2
    /\ r_outcome.metrics.fallback_used
    /\ r_outcome.metrics.duration_ms >= 3000

completed_set(pass) == {pass.completed_nodes[i] : i \in 1..Len(pass.completed_nodes)}
errors_set(pass)    == {pass.errors[i] : i \in 1..Len(pass.errors)}

\* C6: resume completeness.  A pass resumed on a run whose stages 1-3 have
\* completed checkpoints and whose stages 4-10 have none starts from a state
\* whose completed set contains stages 1, 2 and 3, and when the pass has
\* finished each of the ten stages is in the completed set or recorded as
\* failed in errors.
C6_ResumeCompleteness ==
    \A k \in DOMAIN passes :
        (passes[k].origin = "resume"
            /\ passes[k].rebuilt = {"agent_1", "agent_2", "agent_3"}) =>
          /\ {"agent_1", "agent_2", "agent_3"} \subseteq completed_set(passes[k])
          /\ passes[k].pc = "done" =>
                \A n \in AllAgents : \/ agent_key(n) \in completed_set(passes[k])
                                     \/ n \in errors_set(passes[k])

\* The steps of a pass after Phase A and before Phase C has finished.
AfterPhaseA == {"orchestrator", "specialist", "pharmacist", "stage_c"}

\* C7: cancellation precedence.  When a pass that saw the run cancelled while
\* it was in flight after Phase A ends, however it ends, the persisted status
\* of the run is cancelled.
C7_CancelWins ==
    [][\A k \in DOMAIN passes :
          (/\ passes[k].cancelled_at \in AfterPhaseA
           /\ passes[k].pc # "done"
           /\ k \in DOMAIN passes'
           /\ passes'[k].pc = "done") => run_status' = "cancelled"]_vars

\* C8: terminal run states have no outgoing transition.  Once the persisted
\* status is completed, failed or cancelled no step changes it.
C8_TerminalIsFinal ==
    [][(run_status \in Terminal) => (run_status' = run_status)]_vars

\* C9: on resume every stage that has a completed checkpoint is skipped: the
\* resumed pass does not invoke its work again, whether it is a Phase-A stage
\* or the orchestrator, specialist, pharmacist or compiler.
C9_ResumeSkipsCompleted ==
    \A k \in DOMAIN passes :
        passes[k].origin = "resume" =>
            \A n \in AllAgents :
                agent_key(n) \in passes[k].rebuilt => n \notin passes[k].invoked

\* The checkpoint rows stored under a stage's key.
rows_of(n) == {i \in 1..Len(checkpoints) : checkpoints[i].node_key = agent_key(n)}

\* C10: when a fresh run in which every executed stage succeeded has ended,
\* there is exactly one checkpoint row for each executed stage, stored under
\* that stage's own key with that stage's output, its status is completed,
\* and there is no other row.
C10_OneCheckpointPerStage ==
    (/\ Len(passes) = 1
     /\ passes[1].origin = "start"
     /\ passes[1].pc = "done"
     /\ passes[1].failed = {}
     /\ ~passes[1].crashed) =>
        /\ \A n \in passes[1].invoked :
              /\ Cardinality(rows_of(n)) = 1
              /\ \A i \in rows_of(n) :
                    /\ checkpoints[i].run_id = TheRun
                    /\ ValueOf(checkpoints[i].state_json, "status") = "completed"
                    /\ ValueOf(checkpoints[i].state_json, "output").agent_no = n
        /\ Len(checkpoints) = Cardinality(passes[1].invoked)

\* A fresh run that executed all ten stages and ended completed.
C10_Witness ==
    /\ Len(passes) = 1
    /\ passes[1].origin = "start"
    /\ passes[1].pc = "done"
    /\ passes[1].failed = {}
    /\ passes[1].invoked = AllAgents
    /\ Len(checkpoints) = 10
    /\ run_status = "completed"

\* The events of one kind recorded under a stage's key.
events_of(n, event_type) == CopiesIn(<<agent_key(n), event_type>>, events)

\* C11: when a fresh run in which every executed stage succeeded has ended,
\* the event log holds exactly one event of kind completed under the key of
\* each executed stage: the six Phase-A stages, the orchestrator, the
\* specialist and the pharmacist if they ran, and the compiler.
C11_OneCompletedEventPerStage ==
    (/\ Len(passes) = 1
     /\ passes[1].origin = "start"
     /\ passes[1].pc = "done"
     /\ passes[1].failed = {}
     /\ ~passes[1].crashed) =>
        \A n \in passes[1].invoked : events_of(n, "completed") = 1

(***************************************************************************)
(* Properties of Phase A (under SpecPhaseA)                                *)
(***************************************************************************)
\* How often stage n is recorded in a pass's errors.
error_entries(pass, n) == Cardinality({i \in 1..Len(pass.errors) : pass.errors[i] = n})

\* C12: Phase-A isolation.  In a fresh run, whatever subset F of the six
\* Phase-A stages fails terminally, once the gather has returned every stage
\* was invoked, every stage outside F is in the Phase-A output map under its
\* own name with its own output, is completed and has a completed checkpoint
\* row, and errors holds exactly one entry for each stage of F and none for
\* the others.
C12_PhaseAIsolation ==
    \A k \in DOMAIN passes :
        (passes[k].origin = "start" /\ passes[k].pc \notin {"new", "stage_a"}) =>
            LET pass == passes[k]
                F    == pass.failed \cap StageAAgents
            IN /\ StageAAgents \subseteq pass.invoked
               /\ DOMAIN pass.stage_a_outputs = {agent_key(n) : n \in StageAAgents \ F}
               /\ \A n \in StageAAgents \ F :
                     /\ pass.stage_a_outputs[agent_key(n)] =
                            model_entry(model_dump(n, FALSE, FALSE))
                     /\ agent_key(n) \in completed_set(pass)
                     /\ Cardinality(rows_of(n)) = 1
                     /\ \A i \in rows_of(n) :
                           /\ ValueOf(checkpoints[i].state_json, "status") = "completed"
                           /\ ValueOf(checkpoints[i].state_json, "output").agent_no = n
                     /\ error_entries(pass, n) = 0
               /\ \A n \in F : /\ error_entries(pass, n) = 1
                               /\ rows_of(n) = {}
                               /\ agent_key(n) \notin completed_set(pass)

\* Stages 2, 4 and 5 failed; 1, 3 and 6 completed and the orchestrator ran.
C12_Witness ==
    /\ Len(passes) = 1
    /\ passes[1].origin = "start"
    /\ passes[1].pc = "done"
    /\ passes[1].failed = {2, 4, 5}
    /\ DOMAIN passes[1].stage_a_outputs = {"agent_1", "agent_3", "agent_6"}
    /\ 7 \in passes[1].invoked
    /\ run_status = "failed"

(***************************************************************************)
(* Properties of the output normalizer (under SpecNorm)                    *)
(***************************************************************************)
\* C13: normalizer idempotence.  Applying the normalizer to an output it
\* returned gives that output back unchanged, with no issues and
\* repaired = false, however often it is applied again.
C13_NormalizerIdempotent ==
    [][(n_applied >= 1 /\ n_result.kind = "return" /\ n_applied' = n_applied + 1)
          => n_result' = Returned(n_result.output, <<>>, FALSE)]_vars

\* C14: the normalizer never raises.  For every stage id and every raw
\* output, malformed ones included, a call returns; no exception leaves it.
C14_NormalizerNeverRaises == n_result.kind # "raise"

(***************************************************************************)
(* Properties of the node metrics table (under SpecMetrics)                *)
(***************************************************************************)
\* The calls for (run_id, node_key) that carried metrics, in call order.
carrying_calls(run_id, node_key) ==
    SelectSeq(metrics_calls,
              LAMBDA c : c.run_id = run_id /\ c.node_key = node_key
                            /\ truthy_metrics(c.metrics))
metrics_rows(run_id, node_key) ==
    SelectSeq(run_node_metrics,
              LAMBDA m : m.run_id = run_id /\ m.node_key = node_key)

\* C15: node metrics are write-once per (run, stage).  There is at most one
\* row per (run, stage); it holds the values of the first call that carried
\* metrics, and no later call for that (run, stage) changes it.
C15_MetricsWriteOnce ==
    \A run_id \in MetricsRuns, node_key \in MetricsNodes :
      LET calls == carrying_calls(run_id, node_key)
          rows == metrics_rows(run_id, node_key)
      IN IF calls = <<>> THEN rows = <<>>
         ELSE rows = <<metrics_record(run_id, node_key, calls[1].status,
                                      calls[1].metrics)>>

\* Two calls with different metrics were made for one (run, stage), and a
\* call without metrics too.
C15_Witness ==
    /\ Len(carrying_calls("run_1", "agent_1")) = 2
    /\ carrying_calls("run_1", "agent_1")[1] # carrying_calls("run_1", "agent_1")[2]
    /\ carrying_calls("run_1", "agent_1")[1].status = "failed"
    /\ \E i \in 1..Len(metrics_calls) :
          /\ metrics_calls[i].run_id = "run_1"
          /\ metrics_calls[i].node_key = "agent_1"
          /\ ~truthy_metrics(metrics_calls[i].metrics)
    /\ Len(run_node_metrics) = 1

(***************************************************************************)
(* Properties of the safety rule registry (under SpecSafety)               *)
(***************************************************************************)
\* The issues the registered rules produce on the state, each with the
\* given node key.
expected_issues ==
    {[issue EXCEPT !.node_key = s_node_key] :
        issue \in UNION {Elements(applies(s_rules[i], s_state)) : i \in 1..Len(s_rules)}}
RECURSIVE produced(_)
produced(i) ==
    IF i > Len(s_rules) THEN 0 ELSE Len(applies(s_rules[i], s_state)) + produced(i + 1)

\* C16: check_all_rules returns exactly the issues produced by every
\* registered rule on the state, each tagged with the given node key, and
\* returns the empty list when no rule fires; the call leaves the state
\* and the registry as they were.
C16_CheckAllAggregates ==
    /\ [](s_issues # NotCalled =>
            /\ s_issues.kind = "return"
            /\ Elements(s_issues.issues) = expected_issues
            /\ Len(s_issues.issues) = produced(1)
            /\ (produced(1) = 0 => s_issues.issues = <<>>))
    /\ [][s_state' = s_state /\ s_rules' = s_rules]_vars

\* The state of the registry test: two rules fire, under node key agent_6.
C16_Witness ==
    /\ s_issues # NotCalled
    /\ s_node_key = "agent_6"
    /\ s_state = SafetyState(<<"ckd", "surgery_planned">>, <<>>, <<"warfarin 5mg">>,
                             <<"NSAID ibuprofen 400mg">>, <<"amiodarone 200mg">>, 21, FALSE)
    /\ Len(s_issues.issues) = 2
    /\ \A j \in 1..2 : s_issues.issues[j].node_key = "agent_6"

(***************************************************************************)
(* Properties of the checkpoint history (under SpecStoreOps)               *)
(***************************************************************************)
\* C17: the checkpoint history is append-only.  No operation of the store
\* removes or modifies an existing row: after every step the table still
\* begins with the rows it held before.
C17_HistoryAppendOnly ==
    [][/\ Len(checkpoints') >= Len(checkpoints)
       /\ SubSeq(checkpoints', 1, Len(checkpoints)) = checkpoints]_vars

(***************************************************************************)
(* Properties of the current checkpoint of a stage (under Spec)            *)
(***************************************************************************)
\* The stages of the run that have a checkpoint row, and the newest row of
\* one of them (rows are kept in insertion order).
stages_saved(rows) == {rows[i].node_key : i \in {j \in 1..Len(rows) : rows[j].run_id = TheRun}}
newest_row(rows, node_key) ==
    rows[CHOOSE i \in 1..Len(rows) :
           /\ rows[i].run_id = TheRun /\ rows[i].node_key = node_key
           /\ \A j \in (i + 1)..Len(rows) :
                 ~(rows[j].run_id = TheRun /\ rows[j].node_key = node_key)]
\* The output-map entry a pass holds for a stage.
output_entry(pass, node_key) ==
    LET num == agent_num(node_key)
        map == IF num \in 1..6 THEN pass.stage_a_outputs
               ELSE IF num \in {7, 8, 9} THEN pass.stage_b_outputs
               ELSE pass.stage_c_outputs
    IN IF node_key \in DOMAIN map THEN map[node_key] ELSE [kind |-> "none"]

\* C18: the current state of a stage is its newest checkpoint row.  When
\* resume_workflow starts a pass, the output-map entry of every stage that
\* has checkpoint rows is the output of the newest of these rows.
C18_CurrentIsNewest ==
    [][\A k \in DOMAIN passes' \ DOMAIN passes :
         passes'[k].origin = "resume" =>
           \A node_key \in stages_saved(checkpoints) :
              output_entry(passes'[k], node_key)
                 = dict_entry(ValueOf(newest_row(checkpoints, node_key).state_json,
                                      "output"))]_vars

(***************************************************************************)
(* Properties of save_event (under SpecEvents)                             *)
(***************************************************************************)
\* C19: a failure of the notification never fails the pipeline.  Whatever
\* happens to the broadcast (at the lookup, the conversion, the message, the
\* task creation, or later in the task), save_event has persisted the event
\* row and returns its id, and nothing else of the event table changes.
C19_NotificationNeverFails ==
    [][/\ event_call'.n = event_call.n + 1 =>
            /\ Len(event_rows') = Len(event_rows) + 1
            /\ SubSeq(event_rows', 1, Len(event_rows)) = event_rows
            /\ event_rows'[Len(event_rows')].node_key = event_call'.node_key
            /\ event_rows'[Len(event_rows')].event_type = event_call'.event_type
            /\ event_call'.result
                  = [kind |-> "return", event_id |-> event_rows'[Len(event_rows')].id]
       /\ event_call'.n = event_call.n =>
            /\ event_rows' = event_rows
            /\ event_call' = event_call]_vars

\* One call met a failing message construction, and the broadcast task of
\* another call raised; the rows of both calls are in the table.
C19_Witness ==
    /\ event_call.n = 2
    /\ event_call.notify = Notification("message", "found", "running")
    /\ event_call.result.kind = "return"
    /\ Len(event_rows) = 2
    /\ \E i \in 1..Len(broadcasts) : broadcasts[i].state = "raised"

(***************************************************************************)
(* Properties of cancel_workflow (under SpecCancel)                        *)
(***************************************************************************)
\* C20: a cancel request succeeds only on a pending or running run, which
\* it sets to cancelled; on a completed, failed or cancelled run it is
\* rejected as already terminal and on an unknown run as not found, and a
\* rejected request leaves the status and the event log as they were.
C20_CancelOnlyNonTerminal ==
    [][cancel_response'.n = cancel_response.n + 1 =>
         LET r == cancel_response' IN
         IF r.run_id # TheRun
            THEN /\ r.status_code = 404 /\ r.detail = "Workflow run not found"
                 /\ run_status' = run_status /\ events' = events
         ELSE IF run_status \in {"completed", "failed", "cancelled"}
            THEN /\ r.status_code = 400 /\ r.detail = "Workflow already terminal"
                 /\ run_status' = run_status /\ events' = events
         ELSE /\ run_status \in {"pending", "running"}
              /\ r.status_code = 200
              /\ run_status' = "cancelled"]_vars

\* The run ended failed, and a cancel request for it was rejected.
C20_Witness ==
    /\ cancel_response.n > 0
    /\ cancel_response.run_id = TheRun
    /\ cancel_response.status_code = 400
    /\ run_status = "failed"

(***************************************************************************)
(* A stage run again by a resumed pass: run_with_retry, then the node's    *)
(* save_checkpoint                                                         *)
(***************************************************************************)
MaxReruns == 2      \* invocations of the stage that reach its save_checkpoint

\* What process() (or the fallback) puts into content_md / content_json.
StageContents == {"note_a", "note_b"}

\* result.model_dump() after run_with_retry: AgentOutput carries flags, and
\* run_with_retry has written flags["metrics"] into it.
stamped_dump(body, node_metrics) ==
    [agent_no |-> 7, content |-> body, flags |-> [metrics |-> node_metrics]]

\* The dict the node hands to save_checkpoint.
node_checkpoint_state(body, node_metrics) ==
    <<<<"output", stamped_dump(body, node_metrics)>>,
      <<"status", "completed">>,
      <<"metrics", node_metrics>>>>

\* The node after a successful run_with_retry: metrics = result.flags.get(
\* "metrics", {}), save_checkpoint(run_id, node_key, {...}); the next pass may
\* invoke the stage again.
StageSaves ==
    /\ r_pc = "done"
    /\ r_outcome.kind = "success"
    /\ cp_call.n < MaxReruns
    /\ \E body \in StageContents :
         LET state == node_checkpoint_state(body, r_outcome.metrics)
             res == save_checkpoint(checkpoints, next_id, TheRun, "agent_7", state)
         IN /\ checkpoints' = res.rows
            /\ next_id' = res.next_id
            /\ cp_call' = [n |-> cp_call.n + 1, run_id |-> TheRun,
                           node_key |-> "agent_7", state |-> state, id |-> res.id]
            /\ cp_returned' = cp_returned \cup (IF cp_call.n > 0 THEN {cp_call.id} ELSE {})
    /\ UNCHANGED cp_sessions
    /\ r_pc' = "idle"
    /\ r_attempt' = 0
    /\ r_attempts' = 0
    /\ r_last_error' = NoError
    /\ r_elapsed' = 0
    /\ r_calls' = [process |-> 0, fallback |-> 0, sleep |-> 0]
    /\ r_events' = <<>>
    /\ r_trace' = <<>>
    /\ r_fb' = "none"
    /\ r_outcome' = NoOutcome
    /\ UNCHANGED <<pipeVars, libVars>>

\* The node after run_with_retry raised: errors.append, no checkpoint; the
\* stage stays pending for the next pass.
StageRaised ==
    /\ r_pc = "done"
    /\ r_outcome.kind = "raise"
    /\ r_pc' = "idle"
    /\ r_attempt' = 0
    /\ r_attempts' = 0
    /\ r_last_error' = NoError
    /\ r_elapsed' = 0
    /\ r_calls' = [process |-> 0, fallback |-> 0, sleep |-> 0]
    /\ r_events' = <<>>
    /\ r_trace' = <<>>
    /\ r_fb' = "none"
    /\ r_outcome' = NoOutcome
    /\ UNCHANGED <<storeVars, pipeVars, libVars>>

InitRerun == InitStoreVars /\ InitRetryVars /\ InitPipeVars /\ InitLibVars
NextRerun ==
    \/ RetryStart
    \/ ProcessReturns
    \/ ProcessRaises
    \/ SleepDone
    \/ FallbackReturns
    \/ FallbackReturnsNone
    \/ FallbackRaises
    \/ StageSaves
    \/ StageRaised
SpecRerun == InitRerun /\ [][NextRerun]_vars

\* The stage content held by a checkpoint state dict.
content_of(state) == ValueOf(state, "output").content

\* Rows of (run, stage) whose output carries the given stage content.
rows_with_content(rows, run_id, node_key, body) ==
    {i \in 1..Len(rows) :
        /\ rows[i].run_id = run_id
        /\ rows[i].node_key = node_key
        /\ content_of(rows[i].state_json) = body}

\* C21: when a resumed pass runs a stage again and the stage reproduces the
\* content its existing checkpoint holds, the save adds no second checkpoint
\* row for that (run, stage).
C21_RerunAddsNoRow ==
    [][ (/\ cp_call'.n = cp_call.n + 1
         /\ rows_with_content(checkpoints, TheRun, "agent_7",
                              content_of(cp_call'.state)) # {})
        => checkpoints' = checkpoints ]_vars

\* A second invocation reproduced the content of the existing row and the save
\* returned that row.
C21_Witness ==
    /\ cp_call.n = 2
    /\ Len(checkpoints) = 1
    /\ cp_call.id = checkpoints[1].id

\* Two rows of the same (run, stage) with the same stage content.
C21_DuplicateRow ==
    /\ Len(checkpoints) = 2
    /\ checkpoints[1].node_key = checkpoints[2].node_key
    /\ content_of(checkpoints[1].state_json) = content_of(checkpoints[2].state_json)
    /\ checkpoints[1].state_hash # checkpoints[2].state_hash

(***************************************************************************)
(* In-memory task queue: InMemoryAsyncQueue (app/services/queue.py)        *)
(***************************************************************************)
MaxStarts == 2      \* start() calls that create a worker
MaxStops  == 2      \* stop() calls that find the queue running
MaxTasks  == 3      \* tasks pushed

\* asyncio.Queue.task_done() on self.queue: what it raises, if anything.
task_done(q) ==
    IF q.id = 0 THEN "AttributeError"
    ELSE IF q.unfinished = 0 THEN "ValueError"
    ELSE "ok"

after_task_done(q) ==
    IF task_done(q) = "ok" THEN [q EXCEPT !.unfinished = @ - 1] ELSE q

\* `while self.running:` evaluated by a worker that comes back to the loop head.
loop_head(running) == IF running THEN "get" ELSE "done"

\* start(): a new asyncio.Queue and a new worker task, unless already running.
QueueStart ==
    /\ ~q_running
    /\ Len(q_workers) < MaxStarts
    /\ q_queue' = [id |-> Len(q_workers) + 1, items |-> <<>>, unfinished |-> 0]
    /\ q_running' = TRUE
    /\ q_workers' = Append(q_workers, [pc |-> "get", cancel |-> FALSE, task |-> 0])
    /\ q_worker_task' = Len(q_workers) + 1
    /\ UNCHANGED <<q_stopping, q_tasks>>
    /\ UNCHANGED <<storeVars, retryVars, pipeVars, normVars, metricVars, safetyVars,
                   eventVars, cancelVars, canvasVars>>

\* push(): a future is created and the item is put on self.queue.  The
\* callable is a coroutine function or a plain function.
QueuePush ==
    /\ q_running
    /\ q_queue.id # 0
    /\ Len(q_tasks) < MaxTasks
    /\ \E is_coroutine \in BOOLEAN :
         q_tasks' = Append(q_tasks, [queue |-> q_queue.id, coroutine |-> is_coroutine,
                                     state |-> "queued", future |-> "pending"])
    /\ q_queue' = [q_queue EXCEPT !.items = Append(@, Len(q_tasks) + 1),
                                  !.unfinished = @ + 1]
    /\ UNCHANGED <<q_running, q_worker_task, q_workers, q_stopping>>
    /\ UNCHANGED <<storeVars, retryVars, pipeVars, normVars, metricVars, safetyVars,
                   eventVars, cancelVars, canvasVars>>

\* _worker: self.queue.get() returned an item.  A coroutine function is
\* awaited; a plain function runs to its end at once, its future is resolved
\* and task_done() is called.
WorkerGet ==
    \E w \in DOMAIN q_workers, raises \in BOOLEAN :
      /\ q_workers[w].pc = "get"
      /\ ~q_workers[w].cancel
      /\ q_queue.id # 0
      /\ q_queue.items # <<>>
      /\ LET k == Head(q_queue.items)
             taken == [q_queue EXCEPT !.items = Tail(@)]
         IN IF q_tasks[k].coroutine
            THEN /\ ~raises
                 /\ q_tasks' = [q_tasks EXCEPT ![k].state = "running"]
                 /\ q_workers' = [q_workers EXCEPT ![w].pc = "task", ![w].task = k]
                 /\ q_queue' = taken
            ELSE /\ q_tasks' = [q_tasks EXCEPT
                                  ![k].state = "finished",
                                  ![k].future = IF raises THEN "exception" ELSE "result"]
                 /\ q_workers' = [q_workers EXCEPT ![w].pc = loop_head(q_running)]
                 /\ q_queue' = after_task_done(taken)
      /\ UNCHANGED <<q_running, q_worker_task, q_stopping>>
      /\ UNCHANGED <<storeVars, retryVars, pipeVars, normVars, metricVars, safetyVars,
                     eventVars, cancelVars, canvasVars>>

\* _worker: the awaited callable returned or raised: future.set_result or
\* set_exception, then self.queue.task_done() in the finally block; what
\* task_done raises is caught by `except Exception` and the loop goes on.
TaskEnds ==
    \E w \in DOMAIN q_workers, raises \in BOOLEAN :
      /\ q_workers[w].pc = "task"
      /\ ~q_workers[w].cancel
      /\ q_tasks' = [q_tasks EXCEPT
                        ![q_workers[w].task].state = "finished",
                        ![q_workers[w].task].future =
                            IF raises THEN "exception" ELSE "result"]
      /\ q_queue' = after_task_done(q_queue)
      /\ q_workers' = [q_workers EXCEPT ![w].pc = loop_head(q_running), ![w].task = 0]
      /\ UNCHANGED <<q_running, q_worker_task, q_stopping>>
      /\ UNCHANGED <<storeVars, retryVars, pipeVars, normVars, metricVars, safetyVars,
                     eventVars, cancelVars, canvasVars>>

\* _worker: asyncio.wait_for(self.queue.get(), 1.0) timed out after stop() set
\* running to False: the loop ends.
WorkerLeaves ==
    \E w \in DOMAIN q_workers :
      /\ q_workers[w].pc = "get"
      /\ ~q_workers[w].cancel
      /\ ~q_running
      /\ q_workers' = [q_workers EXCEPT ![w].pc = "done"]
      /\ UNCHANGED <<q_running, q_queue, q_worker_task, q_stopping, q_tasks>>
      /\ UNCHANGED <<storeVars, retryVars, pipeVars, normVars, metricVars, safetyVars,
                     eventVars, cancelVars, canvasVars>>

\* _worker: the CancelledError of worker_task.cancel() is thrown in at the
\* await.  Waiting in get: `except asyncio.CancelledError: break`.  Awaiting
\* the callable: the callable is cancelled, its future is left pending, and
\* the finally block calls self.queue.task_done(); if that raises, the new
\* exception replaces the CancelledError, is caught by `except Exception`, and
\* the loop goes on.
WorkerCancelled ==
    \E w \in DOMAIN q_workers :
      /\ q_workers[w].cancel
      /\ q_workers[w].pc \in {"get", "task"}
      /\ IF q_workers[w].pc = "get"
            THEN /\ q_workers' = [q_workers EXCEPT ![w].pc = "done", ![w].cancel = FALSE]
                 /\ UNCHANGED <<q_queue, q_tasks>>
            ELSE /\ q_tasks' = [q_tasks EXCEPT ![q_workers[w].task].state = "cancelled"]
                 /\ q_queue' = after_task_done(q_queue)
                 /\ q_workers' = [q_workers EXCEPT
                        ![w].pc = IF task_done(q_queue) = "ok" THEN "done"
                                  ELSE loop_head(q_running),
                        ![w].cancel = FALSE,
                        ![w].task = 0]
      /\ UNCHANGED <<q_running, q_worker_task, q_stopping>>
      /\ UNCHANGED <<storeVars, retryVars, pipeVars, normVars, metricVars, safetyVars,
                     eventVars, cancelVars, canvasVars>>

\* stop() up to `await self.worker_task`: running = False and the worker task
\* is cancelled.
QueueStop ==
    /\ q_running
    /\ q_stopping.n < MaxStops
    /\ q_running' = FALSE
    /\ IF q_worker_task # 0 /\ q_workers[q_worker_task].pc # "done"
          THEN /\ q_workers' = [q_workers EXCEPT ![q_worker_task].cancel = TRUE]
               /\ q_stopping' = [n |-> q_stopping.n + 1,
                                 awaits |-> q_stopping.awaits \cup {q_worker_task}]
               /\ UNCHANGED <<q_worker_task, q_queue>>
          ELSE /\ q_stopping' = [q_stopping EXCEPT !.n = @ + 1]
               /\ q_worker_task' = 0
               /\ q_queue' = NoQueue
               /\ UNCHANGED q_workers
    /\ UNCHANGED q_tasks
    /\ UNCHANGED <<storeVars, retryVars, pipeVars, normVars, metricVars, safetyVars,
                   eventVars, cancelVars, canvasVars>>

\* stop() after the awaited worker task ended: worker_task = None, queue = None.
QueueStopped ==
    /\ \E w \in q_stopping.awaits :
         /\ q_workers[w].pc = "done"
         /\ q_stopping' = [q_stopping EXCEPT !.awaits = @ \ {w}]
    /\ q_worker_task' = 0
    /\ q_queue' = NoQueue
    /\ UNCHANGED <<q_running, q_workers, q_tasks>>
    /\ UNCHANGED <<storeVars, retryVars, pipeVars, normVars, metricVars, safetyVars,
                   eventVars, cancelVars, canvasVars>>

InitQueue == InitStoreVars /\ InitRetryVars /\ InitPipeVars /\ InitLibVars
NextQueue ==
    \/ QueueStart
    \/ QueuePush
    \/ WorkerGet
    \/ TaskEnds
    \/ WorkerLeaves
    \/ WorkerCancelled
    \/ QueueStop
    \/ QueueStopped
SpecQueue == InitQueue /\ [][NextQueue]_vars

Started(k) == q_tasks[k].state # "queued"

\* C22: the tasks pushed to the queue run one at a time in push order: a task
\* has not started unless every task pushed to the queue before it has
\* finished and its future is resolved.
C22_OneAtATimeInPushOrder ==
    \A j \in DOMAIN q_tasks, k \in DOMAIN q_tasks :
        (/\ j < k
         /\ q_tasks[j].queue = q_tasks[k].queue
         /\ Started(k))
        => /\ q_tasks[j].state = "finished"
           /\ q_tasks[j].future # "pending"

\* Two tasks of the same queue run at the same time, each awaited by a worker.
C22_TwoTasksRunning ==
    \E j \in DOMAIN q_tasks, k \in DOMAIN q_tasks :
        /\ j < k
        /\ q_tasks[j].queue = q_tasks[k].queue
        /\ q_tasks[j].state = "running"
        /\ q_tasks[k].state = "running"

(***************************************************************************)
(* Canvas versioning: update_canvas (app/api/workflows.py) and the         *)
(* orchestrator's system write (app/graph/workflow.py)                     *)
(*                                                                         *)
(* The application is served by several worker processes (startup.py:      *)
(* gunicorn --workers 4) over one database, so the handlers of different   *)
(* processes interleave between their SELECT and their commit.  The pass   *)
(* update_canvas re-queues is RequeueAfterCanvasEdit; its effect on the    *)
(* table is the orchestrator's system write below.                         *)
(***************************************************************************)
MaxWriters == 3     \* canvas writes begun (client updates and system writes)
MaxVersion == 3     \* versions a client supplies: 1..MaxVersion

CanvasContents == {"md_a", "md_b"}

CanvasRow(version, content_md, updated_by) ==
    [exists |-> TRUE, version |-> version, content_md |-> content_md,
     updated_by |-> updated_by]

\* `if canvas and canvas.version != update_request.version`: HTTP 409.
version_conflict(loaded, client_version) ==
    loaded.exists /\ loaded.version # client_version

\* The row the session writes at commit: the loaded row with its fields set
\* and version += 1, or a new row with version 1.
written_row(loaded, content_md, who) ==
    IF loaded.exists THEN CanvasRow(loaded.version + 1, content_md, who)
    ELSE CanvasRow(1, content_md, who)

CanvasResult(who, status_code, client_version, loaded, before, after) ==
    [who |-> who, status_code |-> status_code, client_version |-> client_version,
     loaded |-> loaded, before |-> before, after |-> after]

\* update_canvas up to the version check: the row is loaded; a conflict is
\* answered with 409 at once.
UpdateCanvasQuery ==
    /\ Len(canvas_sessions) < MaxWriters
    /\ \E client_version \in 1..MaxVersion, content_md \in CanvasContents :
         IF version_conflict(canvas, client_version)
         THEN /\ canvas_sessions' = Append(canvas_sessions,
                    [who |-> "user", pc |-> "done", client_version |-> client_version,
                     content_md |-> content_md, loaded |-> canvas])
              /\ canvas_log' = Append(canvas_log,
                    CanvasResult("user", 409, client_version, canvas, canvas, canvas))
         ELSE /\ canvas_sessions' = Append(canvas_sessions,
                    [who |-> "user", pc |-> "loaded", client_version |-> client_version,
                     content_md |-> content_md, loaded |-> canvas])
              /\ UNCHANGED canvas_log
    /\ UNCHANGED canvas
    /\ UNCHANGED <<storeVars, retryVars, pipeVars, normVars, metricVars, safetyVars,
                   eventVars, cancelVars, queueVars>>

\* stage_b_orchestrator after a successful orchestrator: the canvas of agent 7
\* is loaded.
SystemCanvasQuery ==
    /\ Len(canvas_sessions) < MaxWriters
    /\ \E content_md \in CanvasContents :
         canvas_sessions' = Append(canvas_sessions,
              [who |-> "system", pc |-> "loaded", client_version |-> 0,
               content_md |-> content_md, loaded |-> canvas])
    /\ UNCHANGED <<canvas, canvas_log>>
    /\ UNCHANGED <<storeVars, retryVars, pipeVars, normVars, metricVars, safetyVars,
                   eventVars, cancelVars, queueVars>>

\* db.commit() of a writer: UPDATE of the loaded row, or INSERT of a new one,
\* which fails on the primary key if the row was inserted meanwhile (500 for
\* the client, swallowed by the pipeline).
CanvasCommit ==
    \E i \in DOMAIN canvas_sessions :
      LET s == canvas_sessions[i]
          duplicate == ~s.loaded.exists /\ canvas.exists
          row == written_row(s.loaded, s.content_md, s.who)
      IN /\ s.pc = "loaded"
         /\ canvas' = IF duplicate THEN canvas ELSE row
         /\ canvas_sessions' = [canvas_sessions EXCEPT ![i].pc = "done"]
         /\ canvas_log' = Append(canvas_log,
                CanvasResult(s.who, IF duplicate THEN 500 ELSE 200, s.client_version,
                             s.loaded, canvas, canvas'))
         /\ UNCHANGED <<storeVars, retryVars, pipeVars, normVars, metricVars, safetyVars,
                        eventVars, cancelVars, queueVars>>

InitCanvas == InitStoreVars /\ InitRetryVars /\ InitPipeVars /\ InitLibVars
NextCanvas ==
    \/ UpdateCanvasQuery
    \/ SystemCanvasQuery
    \/ CanvasCommit
SpecCanvas == InitCanvas /\ [][NextCanvas]_vars

\* C23: a client update of an existing canvas succeeds only if the version it
\* supplies equals the canvas's current version, and then raises the version
\* by exactly 1; an update with another version is answered with a conflict
\* and leaves the canvas as it was.
C23_OptimisticVersioning ==
    \A i \in DOMAIN canvas_log :
      LET e == canvas_log[i] IN
      (e.who = "user" /\ e.loaded.exists) =>
         /\ e.status_code = 200 =>
               /\ e.client_version = e.before.version
               /\ e.after.version = e.before.version + 1
         /\ e.client_version # e.before.version =>
               /\ e.status_code = 409
               /\ e.after = e.before

\* A client update was accepted although the system write had raised the
\* version after the client's row was loaded.
C23_LostSystemWrite ==
    \E i \in DOMAIN canvas_log :
      LET e == canvas_log[i] IN
      /\ e.who = "user"
      /\ e.status_code = 200
      /\ e.before.updated_by = "system"
      /\ e.before.version = e.loaded.version + 1
      /\ e.after.version = e.before.version

(***************************************************************************)
(* Properties of the passes, fresh and resumed (under Spec)                *)
(***************************************************************************)
PhaseAKeys == {agent_key(n) : n \in 1..6}

\* The pass has left Phase A.
PastPhaseA(pass) == pass.pc \notin {"new", "stage_a"}

\* The stage whose output a model entry or a checkpoint row holds, 0 if the
\* output does not say (a seeded {"dummy": true}).
stage_of(o) == IF "agent_no" \in DOMAIN o THEN o.agent_no ELSE 0

\* C24: in every pass, fresh or resumed with any subset of the Phase-A stages
\* completed, once Phase A is over the output-map entry and the checkpoint
\* stored under agent_i hold the output of stage i, and the entries the pass
\* was started with are still in the map.
C24_PhaseAKeysMatchStages ==
    /\ \A k \in DOMAIN passes :
         PastPhaseA(passes[k]) =>
           /\ \A key \in DOMAIN passes[k].stage_a_outputs :
                LET o == passes[k].stage_a_outputs[key].output IN
                stage_of(o) # 0 => stage_of(o) = agent_num(key)
           /\ (passes[k].rebuilt \cap PhaseAKeys) \subseteq DOMAIN passes[k].stage_a_outputs
    /\ \A i \in 1..Len(checkpoints) :
         LET o == ValueOf(checkpoints[i].state_json, "output") IN
         (checkpoints[i].node_key \in PhaseAKeys /\ stage_of(o) # 0)
            => stage_of(o) = agent_num(checkpoints[i].node_key)

\* A resumed pass ran the pending stages 4, 5, 6 and filed their outputs under
\* agent_1, agent_2, agent_3, dropping the entries it was started with.
C24_ResumedPassMisfiles ==
    \E k \in DOMAIN passes :
        /\ passes[k].origin = "resume"
        /\ passes[k].rebuilt = {"agent_1", "agent_2", "agent_3"}
        /\ PastPhaseA(passes[k])
        /\ DOMAIN passes[k].stage_a_outputs = {"agent_1", "agent_2", "agent_3"}
        /\ passes[k].stage_a_outputs["agent_1"].output.agent_no = 4

(***************************************************************************)
(* The orchestrator's bookkeeping, one database transaction at a time, and *)
(* a resume handled meanwhile (by another worker process, or after the     *)
(* pass's process stopped between two transactions)                        *)
(***************************************************************************)
\* stage_b_orchestrator from the return of run_with_retry to the commit of
\* save_checkpoint.
orchestrator_saved(ctx, ns, np) ==
    LET o  == model_dump(7, ns, np)
        c1 == [ctx EXCEPT
                 !.p.stage_b_outputs = ("agent_7" :> model_entry(o)) @@ @,
                 !.p.completed_nodes = Append(@, "agent_7"),
                 !.p.pc = "orchestrator_saved"]
    IN save(c1, "agent_7", o)

\* stage_b_orchestrator from there on: the COMPLETED and PROGRESS events, then
\* the edge should_run_specialist.
orchestrator_recorded(ctx) ==
    should_run_specialist(
        emit(emit(evaluate_safety(ctx, "agent_7"), "agent_7", "completed"),
             "agent_7", "progress"))

OrchestratorSaved ==
    \E k \in DOMAIN passes, ns \in BOOLEAN, np \in BOOLEAN :
      /\ passes[k].pc = "orchestrator"
      /\ Commit(k, orchestrator_saved(context(passes[k]), ns, np))

OrchestratorRecorded ==
    \E k \in DOMAIN passes :
      /\ passes[k].pc = "orchestrator_saved"
      /\ Commit(k, orchestrator_recorded(context(passes[k])))

OrchestratorFailed ==
    \E k \in DOMAIN passes :
      /\ passes[k].pc = "orchestrator"
      /\ StageOutcome(k, FALSE)
      /\ Commit(k, orchestrator_done(context(passes[k]), FALSE, FALSE, FALSE))

\* resume_workflow while a pass of the run may be in flight.
ResumeInterleaved == Len(passes) < MaxPasses /\ resume_workflow

InitBookkeeping == InitStoreVars /\ InitRetryVars /\ InitPipeVars /\ InitLibVars
NextBookkeeping ==
    \/ StartWorkflow
    \/ StageADone
    \/ OrchestratorSaved
    \/ OrchestratorRecorded
    \/ OrchestratorFailed
    \/ SpecialistDone
    \/ PharmacistDone
    \/ CompilerDone
    \/ PassEnd
    \/ ResumeInterleaved
SpecBookkeeping == InitBookkeeping /\ [][NextBookkeeping]_vars

\* The event a node writes when its stage has succeeded: PROGRESS under the
\* stage's key in Phase A, COMPLETED under the stage's key afterwards.
completion_event(key) ==
    IF key \in PhaseAKeys THEN <<key, "progress">> ELSE <<key, "completed">>

\* C25: whenever a resume considers a stage complete, because it found a
\* checkpoint row with status completed for it, the stage's completion event
\* has been written as well.
C25_CompleteImpliesEventWritten ==
    [][ (/\ Len(passes') = Len(passes) + 1
         /\ passes'[Len(passes')].origin = "resume")
        => \A key \in passes'[Len(passes')].rebuilt :
               CopiesIn(completion_event(key), events) >= 1 ]_vars

\* A resume that found every completed stage's event written.
C25_Witness ==
    \E k \in DOMAIN passes :
        /\ passes[k].origin = "resume"
        /\ "agent_7" \in passes[k].rebuilt
        /\ \A key \in passes[k].rebuilt : CopiesIn(completion_event(key), events) >= 1

\* A resumed pass that was started from the orchestrator's checkpoint while
\* the orchestrator's COMPLETED event did not exist yet.
C25_ResumeBeforeEvent ==
    \E k \in DOMAIN passes :
        /\ passes[k].origin = "resume"
        /\ "agent_7" \in passes[k].rebuilt
        /\ CopiesIn(<<"agent_7", "completed">>, events) = 0

(***************************************************************************)
(* Failure handling and routing of Phases B and C                          *)
(***************************************************************************)
\* C26: if the orchestrator or the specialist fails terminally, no later
\* stage of Phase B is invoked in that pass; if the compiler fails, Phase C
\* writes no checkpoint and no completion event for it.
C26_FailureEndsPhase ==
    \A k \in DOMAIN passes :
        /\ 7 \in passes[k].failed => passes[k].invoked \cap {8, 9} = {}
        /\ 8 \in passes[k].failed => 9 \notin passes[k].invoked
        /\ (10 \in passes[k].failed /\ Len(passes) = 1) =>
              /\ rows_of(10) = {}
              /\ events_of(10, "completed") = 0
              /\ "agent_10" \notin DOMAIN passes[k].stage_c_outputs

\* The specialist failed terminally and the pharmacist was invoked after it.
C26_PharmacistAfterFailedSpecialist ==
    \E k \in DOMAIN passes :
        /\ 8 \in passes[k].failed
        /\ 9 \in passes[k].invoked
        /\ passes[k].pc = "done"

(***************************************************************************)
(* A node's handling of a successful stage: validate_agent_output, the     *)
(* merge into the output map and the checkpoint                            *)
(***************************************************************************)
\* result.model_dump() of a pydantic output: content_md is a str, problems a
\* list of dicts (whose values are not constrained).
ModelDumps(agent_no) ==
    {o \in RawOutputs(agent_no) :
        /\ o.t = "dict"
        /\ IF agent_no = 7
              THEN /\ o.problems.t = "list"
                   /\ \A i \in 1..Len(o.problems.items) : o.problems.items[i].t = "dict"
              ELSE o.content_md.t = "str"}

\* The node after run_with_retry returned `result`:
\*   validated, issues, repaired = validate_agent_output(result.agent_no,
\*                                                       result.model_dump())
\*   outputs[key] = result.__class__(**validated)
\*   save_checkpoint(run_id, key, {"output": result.model_dump(), ...})
\* n_result keeps what the normalizer returned, whose output is the entry
\* merged into the output map.  An exception of the normalizer leaves the node
\* before anything is stored.
NodeMerges ==
    /\ n_applied = 0
    /\ LET validated == validate_agent_output(n_agent, n_input)
           state == <<<<"output", n_input>>, <<"status", "completed">>,
                      <<"metrics", metrics(1, 0, FALSE)>>>>
           res == save_checkpoint(checkpoints, next_id, TheRun, agent_key(n_agent), state)
       IN /\ n_result' = validated
          /\ n_applied' = 1
          /\ IF validated.kind = "return"
                THEN /\ checkpoints' = res.rows
                     /\ next_id' = res.next_id
                     /\ cp_call' = [n |-> cp_call.n + 1, run_id |-> TheRun,
                                    node_key |-> agent_key(n_agent), state |-> state,
                                    id |-> res.id]
                     /\ UNCHANGED <<cp_returned, cp_sessions>>
                ELSE UNCHANGED storeVars
    /\ UNCHANGED <<n_agent, n_input>>
    /\ UNCHANGED <<retryVars, pipeVars, metricVars, safetyVars, eventVars, cancelVars,
                   queueVars, canvasVars>>

InitNodeOutput ==
    /\ InitStoreVars /\ InitRetryVars /\ InitPipeVars
    /\ n_agent \in {1, 4, 7}
    /\ n_input \in ModelDumps(n_agent)
    /\ n_result = NoResult
    /\ n_applied = 0
    /\ InitMetricVars /\ InitSafetyVars /\ InitEventVars /\ InitCancelVars
    /\ InitQueueVars /\ InitCanvasVars
NextNodeOutput == NodeMerges
SpecNodeOutput == InitNodeOutput /\ [][NextNodeOutput]_vars

\* C27: for every successful stage the output stored in the stage's
\* checkpoint equals the normalized output that was merged into the output
\* map, not the raw output the stage returned.
C27_CheckpointHoldsNormalized ==
    (n_applied = 1 /\ n_result.kind = "return") =>
        /\ Len(checkpoints) = 1
        /\ ValueOf(checkpoints[1].state_json, "output") = n_result.output

\* The normalizer repaired the output and the checkpoint holds the raw one.
C27_CheckpointHoldsRaw ==
    /\ n_applied = 1
    /\ n_result.kind = "return"
    /\ n_result.repaired
    /\ n_result.output # n_input
    /\ ValueOf(checkpoints[1].state_json, "output") = n_input

\* The orchestrator succeeded in this pass with the given routing flag set.
orchestrator_asked(pass, flag) ==
    /\ 7 \notin pass.failed
    /\ "agent_7" \in DOMAIN pass.stage_b_outputs
    /\ pass.stage_b_outputs["agent_7"].kind = "model"
    /\ pass.stage_b_outputs["agent_7"].output[flag]

\* C28: routing.  In a pass that has ended the specialist was invoked exactly
\* when the orchestrator succeeded with specialist_needed set, the pharmacist
\* exactly when it succeeded with pharmacist_needed set, whatever the
\* specialist did, and the compiler was invoked.
C28_Routing ==
    \A k \in DOMAIN passes :
        passes[k].pc = "done" =>
            /\ 8 \in passes[k].invoked <=> orchestrator_asked(passes[k], "specialist_needed")
            /\ 9 \in passes[k].invoked <=> orchestrator_asked(passes[k], "pharmacist_needed")
            /\ 10 \in passes[k].invoked

\* A fresh pass in which the specialist failed and the pharmacist and the
\* compiler were invoked all the same.
C28_Witness ==
    /\ Len(passes) = 1
    /\ passes[1].origin = "start"
    /\ passes[1].pc = "done"
    /\ 8 \in passes[1].failed
    /\ orchestrator_asked(passes[1], "pharmacist_needed")
    /\ {9, 10} \subseteq passes[1].invoked

\* A resumed pass whose orchestrator asked for the pharmacist and that ended
\* without invoking the pharmacist or the compiler.
C28_ResumedPassStopsShort ==
    \E k \in DOMAIN passes :
        /\ passes[k].origin = "resume"
        /\ passes[k].pc = "done"
        /\ orchestrator_asked(passes[k], "pharmacist_needed")
        /\ passes[k].invoked \cap {9, 10} = {}

(***************************************************************************)
(* The status a pass leaves behind                                         *)
(***************************************************************************)
\* Pass k ends in this step.
Ends(k) ==
    /\ k \in DOMAIN passes
    /\ passes[k].pc # "done"
    /\ passes'[k].pc = "done"

awaited_at(source_node) ==
    IF source_node = "agent_7" THEN "orchestrator"
    ELSE IF source_node = "agent_9" THEN "pharmacist"
    ELSE IF source_node = "agent_10" THEN "stage_c"
    ELSE "none"

\* C30: within one pass the safety rules are evaluated only right after a
\* successful orchestrator, a successful pharmacist and a successful compiler,
\* in that order and at most once each; not after Phase A alone, not after
\* the specialist, not after a stage that failed.
C30_SafetyEvaluationPoints ==
    /\ [](\A k \in DOMAIN passes :
            passes[k].pc \in {"new", "stage_a", "orchestrator"}
                => passes[k].safety_evals = <<>>)
    /\ [][\A k \in DOMAIN passes :
            LET old == passes[k].safety_evals
                new == passes'[k].safety_evals
            IN new # old =>
                 /\ Len(new) = Len(old) + 1
                 /\ SubSeq(new, 1, Len(old)) = old
                 /\ LET s == new[Len(new)] IN
                    /\ s \in {"agent_7", "agent_9", "agent_10"}
                    /\ passes[k].pc = awaited_at(s)
                    /\ agent_num(s) \notin passes'[k].failed
                    /\ \A i \in 1..Len(old) : agent_num(old[i]) < agent_num(s)]_vars

\* A pass that ran orchestrator, specialist, pharmacist and compiler
\* successfully and evaluated the rules three times.
C30_Witness ==
    \E k \in DOMAIN passes :
        /\ passes[k].pc = "done"
        /\ {7, 8, 9, 10} \subseteq passes[k].invoked
        /\ passes[k].failed = {}
        /\ passes[k].safety_evals = <<"agent_7", "agent_9", "agent_10">>

(***************************************************************************)
(* Order of the stages within a pass                                       *)
(***************************************************************************)
\* Stage n succeeded in Phase A of this pass: the pass holds the model it
\* built, and a completed checkpoint row under the same key holds its dump.
phase_a_checkpointed(pass, n) ==
    \E key \in DOMAIN pass.stage_a_outputs :
        /\ pass.stage_a_outputs[key].kind = "model"
        /\ pass.stage_a_outputs[key].output.agent_no = n
        /\ \E i \in 1..Len(checkpoints) :
              /\ checkpoints[i].run_id = TheRun
              /\ checkpoints[i].node_key = key
              /\ ValueOf(checkpoints[i].state_json, "status") = "completed"
              /\ ValueOf(checkpoints[i].state_json, "output") = pass.stage_a_outputs[key].output

\* Stage n of Phase B was awaited in this pass and its outcome is recorded:
\* it raised, or the pass holds the model it built.
phase_b_ended(pass, n) ==
    \/ n \in pass.failed
    \/ /\ agent_key(n) \in DOMAIN pass.stage_b_outputs
       /\ pass.stage_b_outputs[agent_key(n)].kind = "model"

\* C31: in every pass, once the orchestrator has been invoked no Phase-A
\* stage of the pass is still pending, each one the pass invoked has failed
\* or has its output checkpointed; once the compiler has been invoked the
\* orchestrator was invoked and has ended, each routed specialist or
\* pharmacist stage was invoked, and each one invoked has ended.
C31_PhaseOrder ==
    \A k \in DOMAIN passes :
        LET pass == passes[k]
        IN /\ 7 \in pass.invoked =>
                /\ pass.pending = <<>>
                /\ pass.pc # "stage_a"
                /\ \A n \in pass.invoked \cap StageAAgents :
                      n \in pass.failed \/ phase_a_checkpointed(pass, n)
           /\ 10 \in pass.invoked =>
                /\ 7 \in pass.invoked
                /\ pass.pc \notin {"stage_a", "orchestrator", "specialist", "pharmacist"}
                /\ orchestrator_asked(pass, "specialist_needed") => 8 \in pass.invoked
                /\ orchestrator_asked(pass, "pharmacist_needed") => 9 \in pass.invoked
                /\ \A n \in pass.invoked \cap {7, 8, 9} : phase_b_ended(pass, n)

\* A fresh pass in which one Phase-A stage failed, the others were
\* checkpointed, both routed stages ran and the compiler was invoked.
C31_Witness ==
    /\ Len(passes) = 1
    /\ passes[1].pc = "stage_c"
    /\ passes[1].invoked = AllAgents
    /\ passes[1].failed = {3}
    /\ \A n \in StageAAgents \ {3} : phase_a_checkpointed(passes[1], n)

(***************************************************************************)
(* Safety evaluation at the call sites                                     *)
(***************************************************************************)
MaxFound == 2        \* issues one safety evaluation returns

SafetyOutcomes ==
    {SafetyOutcome(TRUE, 0, {})}
        \cup {SafetyOutcome(FALSE, found, lost) :
                found \in 0..MaxFound, lost \in SUBSET (1..MaxFound)}

\* start_workflow for a patient whose data, rules and event store give the
\* safety evaluations of the pass any of the outcomes.
StartWithFindings ==
    /\ run_status = "pending"
    /\ passes = <<>>
    /\ checkpoints = <<>>
    /\ \E plan \in [SafetySources -> SafetyOutcomes] :
         /\ \A s \in SafetySources : plan[s].lost \subseteq 1..plan[s].found
         /\ LET pass == [new_pass("start", <<>>, <<>>, <<>>, <<>>)
                            EXCEPT !.safety_plan = plan]
                ctx  == [context(pass) EXCEPT !.status = "running"]
            IN Commit(1, enter_stage_a(ctx))

InitFindings == InitStoreVars /\ InitRetryVars /\ InitPipeVars /\ InitLibVars
NextFindings ==
    \/ StartWithFindings
    \/ StageADone
    \/ OrchestratorDone
    \/ SpecialistDone
    \/ PharmacistDone
    \/ CompilerDone
    \/ PassEnd
SpecFindings == InitFindings /\ [][NextFindings]_vars

\* C32: a stage after which the safety rules were evaluated is recorded as
\* completed, with its checkpoint row and its completion event, whether or
\* not the evaluation raised; the pass has one errors entry per failed stage
\* and none for an evaluation; and a pass that ended with no failed stage
\* leaves the run completed, whatever issues were found.
C32_SafetyNeverFailsStage ==
    \A k \in DOMAIN passes :
        LET pass == passes[k]
        IN /\ \A i \in 1..Len(pass.safety_evals) :
                LET s == pass.safety_evals[i]
                IN /\ agent_num(s) \notin pass.failed
                   /\ \E j \in 1..Len(pass.completed_nodes) : pass.completed_nodes[j] = s
                   /\ \E r \in rows_of(agent_num(s)) :
                        ValueOf(checkpoints[r].state_json, "status") = "completed"
                   /\ events_of(agent_num(s), "completed") >= 1
           /\ Len(pass.errors) = Cardinality(pass.failed)
           /\ \A i \in 1..Len(pass.errors) : pass.errors[i] \in pass.failed
           /\ (pass.pc = "done" /\ pass.failed = {} /\ ~pass.crashed) =>
                 run_status = "completed"

\* A run that ended completed although the evaluation after the orchestrator
\* raised and the one after the compiler found issues.
C32_Witness ==
    /\ Len(passes) = 1
    /\ passes[1].pc = "done"
    /\ passes[1].safety_plan["agent_7"].raises
    /\ passes[1].safety_plan["agent_10"].found = MaxFound
    /\ passes[1].safety_evals = <<"agent_7", "agent_10">>
    /\ passes[1].safety_issues # <<>>
    /\ passes[1].errors = <<>>
    /\ run_status = "completed"

\* The entries the evaluations sources[i..] append to state.safety_issues.
RECURSIVE expected_entries(_, _, _)
expected_entries(plan, sources, i) ==
    IF i > Len(sources) THEN <<>>
    ELSE LET out == plan[sources[i]]
         IN (IF out.raises THEN <<>>
             ELSE [j \in 1..out.found |-> [rule_id |-> j, source |-> sources[i]]])
                \o expected_entries(plan, sources, i + 1)

\* The event writes of the evaluations sources[i..] that raised.
RECURSIVE lost_writes(_, _, _)
lost_writes(plan, sources, i) ==
    IF i > Len(sources) THEN 0
    ELSE Cardinality(plan[sources[i]].lost) + lost_writes(plan, sources, i + 1)

safety_events == CopiesIn(<<"safety", "progress">>, events)

IsPrefix(s, t) == Len(s) <= Len(t) /\ SubSeq(t, 1, Len(s)) = s

\* C33 as stated: the safety-issue list of the pass holds, in order, one
\* entry tagged with the source stage for every issue an evaluation returned,
\* and the safety events written are as many as the entries.
C33_EventPerEntry ==
    \A k \in DOMAIN passes :
        /\ passes[k].safety_issues =
              expected_entries(passes[k].safety_plan, passes[k].safety_evals, 1)
        /\ safety_events = Len(passes[k].safety_issues)

\* C33: the safety-issue list of the pass holds, in order, one entry tagged
\* with the source stage for every issue an evaluation returned; the safety
\* events written are as many as the entries less the event writes that
\* raised; and a step only appends to the list.
C33_EntryPerIssue ==
    /\ [](\A k \in DOMAIN passes :
            /\ passes[k].safety_issues =
                  expected_entries(passes[k].safety_plan, passes[k].safety_evals, 1)
            /\ safety_events = Len(passes[k].safety_issues)
                  - lost_writes(passes[k].safety_plan, passes[k].safety_evals, 1))
    /\ [][\A k \in DOMAIN passes :
            IsPrefix(passes[k].safety_issues, passes'[k].safety_issues)]_vars

\* A pass in which two evaluations returned issues, one event write raised,
\* and the list holds more entries than there are safety events.
C33_Witness ==
    /\ Len(passes) = 1
    /\ passes[1].safety_evals = <<"agent_7", "agent_9", "agent_10">>
    /\ passes[1].safety_plan["agent_7"].found = MaxFound
    /\ passes[1].safety_plan["agent_7"].lost = {}
    /\ passes[1].safety_plan["agent_9"].found = 1
    /\ passes[1].safety_plan["agent_9"].lost = {1}
    /\ Len(passes[1].safety_issues) >= MaxFound + 1
    /\ safety_events < Len(passes[1].safety_issues)
    /\ safety_events >= MaxFound

(***************************************************************************)
(* The output maps and the completed list                                  *)
(***************************************************************************)
\* The output map of the pass that holds the entries of stage n.
outputs_of_stage(pass, n) ==
    IF n \in StageAAgents THEN pass.stage_a_outputs
    ELSE IF n \in {7, 8, 9} THEN pass.stage_b_outputs
    ELSE pass.stage_c_outputs

\* The stage named key has reached a successful outcome in this pass: the
\* pass awaited it, it did not raise, and its map holds under its name the
\* model built from its own output.
succeeded_in(pass, key) ==
    LET n == agent_num(key)
    IN /\ n \in pass.invoked
       /\ n \notin pass.failed
       /\ key \in DOMAIN outputs_of_stage(pass, n)
       /\ outputs_of_stage(pass, n)[key].kind = "model"
       /\ outputs_of_stage(pass, n)[key].output.agent_no = n

\* C34: in every state of a pass no stage name is a key of two of the three
\* output maps; and a step of a pass only appends to its completed list, each
\* appended name being that of a stage that has succeeded in this pass.
C34_CompletedMeansSucceeded ==
    /\ [](\A k \in DOMAIN passes :
            /\ DOMAIN passes[k].stage_a_outputs \cap DOMAIN passes[k].stage_b_outputs = {}
            /\ DOMAIN passes[k].stage_a_outputs \cap DOMAIN passes[k].stage_c_outputs = {}
            /\ DOMAIN passes[k].stage_b_outputs \cap DOMAIN passes[k].stage_c_outputs = {})
    /\ [][\A k \in DOMAIN passes :
            LET old == passes[k].completed_nodes
                new == passes'[k].completed_nodes
            IN /\ IsPrefix(old, new)
               /\ \A i \in (Len(old) + 1)..Len(new) : succeeded_in(passes'[k], new[i])]_vars

\* A resumed pass whose completed list gained the name of a stage it never
\* awaited.
C34_CompletedNeverAwaited ==
    \E k \in DOMAIN passes :
        /\ passes[k].origin = "resume"
        /\ \E i \in 1..Len(passes[k].completed_nodes) :
              /\ passes[k].completed_nodes[i] \in passes[k].rebuilt
              /\ agent_num(passes[k].completed_nodes[i]) \notin passes[k].invoked
              /\ \E j \in 1..(i - 1) :
                    passes[k].completed_nodes[j] = passes[k].completed_nodes[i]

(***************************************************************************)
(* The RETRIED events of one run_with_retry invocation                     *)
(***************************************************************************)
retry_events    == {i \in 1..Len(r_events) : ~r_events[i].fallback}
fallback_events == {i \in 1..Len(r_events) : r_events[i].fallback}

Suffix(k) == [stem |-> "#", form |-> "plain", n |-> k]

\* Headings that repeat one another up to case and the POA tag, some of them
\* already carrying a numeric suffix.
SuffixedHeadings ==
    {Missing,
     StrV(<<Word("htn", "lower")>>, TRUE),
     StrV(<<Word("htn", "cap"), POATag>>, TRUE),
     StrV(<<Word("htn", "cap"), POATag, Suffix(2)>>, TRUE),
     StrV(<<Word("htn", "lower"), POATag, Suffix(3)>>, TRUE)}

\* An orchestrator output whose problems carry such headings.
InitHeadings ==
    /\ InitStoreVars /\ InitRetryVars /\ InitPipeVars
    /\ n_agent = 7
    /\ \E hs \in [1..MaxProblems -> SuffixedHeadings] :
          n_input = OutputV(ListV([i \in 1..MaxProblems |-> ProblemV(hs[i], Missing)]),
                            Missing)
    /\ n_result = NoResult
    /\ n_applied = 0
    /\ InitMetricVars /\ InitSafetyVars /\ InitEventVars /\ InitCancelVars
    /\ InitQueueVars /\ InitCanvasVars
NextHeadings == Validate
SpecHeadings == InitHeadings /\ [][NextHeadings]_vars

\* The non-empty string heading of a problem entry, if it has one.
has_heading(p) == p.t = "dict" /\ p.heading.t = "str" /\ truthy_str(p.heading)

\* The heading with the POA tag and in title case, before the duplicate rule.
tagged_title(h) == title_case(IF has_poa(h) THEN h ELSE add_poa(h))

\* C36: in what the normalizer returns for an orchestrator output, the
\* non-empty problem headings are pairwise distinct when compared in lower
\* case; after the first application each is the tagged, title-cased heading
\* of its entry, with a numeric suffix appended exactly when that heading
\* equals, in lower case, a heading returned before it.
C36_HeadingsDistinct ==
    (/\ n_agent = 7
     /\ n_result.kind = "return"
     /\ n_result.output.problems.t = "list") =>
        LET out == n_result.output.problems.items
        IN /\ \A i, j \in 1..Len(out) :
                (i < j /\ has_heading(out[i]) /\ has_heading(out[j])) =>
                    lower(out[i].heading) # lower(out[j].heading)
           /\ n_applied = 1 =>
                \A j \in 1..Len(out) :
                    has_heading(out[j]) =>
                        LET h2 == tagged_title(n_input.problems.items[j].heading)
                            before == {lower(out[i].heading) :
                                         i \in {m \in 1..(j - 1) : has_heading(out[m])}}
                        IN IF lower(h2) \in before
                              THEN \E s \in 2..(MaxProblems + 3) :
                                      out[j].heading = add_suffix(h2, s)
                              ELSE out[j].heading = h2

\* An output whose first heading already carries the suffix 2: the third
\* heading, a duplicate of the second, is given the suffix 3.
C36_Witness ==
    /\ n_agent = 7
    /\ n_applied = 1
    /\ n_result.kind = "return"
    /\ n_input.problems.t = "list"
    /\ Len(n_input.problems.items) >= 3
    /\ n_input.problems.items[1].heading =
          StrV(<<Word("htn", "cap"), POATag, Suffix(2)>>, TRUE)
    /\ n_input.problems.items[2].heading = StrV(<<Word("htn", "lower")>>, TRUE)
    /\ n_input.problems.items[3].heading = StrV(<<Word("htn", "cap"), POATag>>, TRUE)
    /\ n_result.output.problems.items[3].heading =
          StrV(<<Word("htn", "cap"), POATag, Suffix(3)>>, TRUE)

(***************************************************************************)
(* Cancellation and the pass in flight                                     *)
(***************************************************************************)
\* The pass has gone through the whole graph: the orchestrator, the stages it
\* routed to and the compiler were invoked, and every invoked stage that did
\* not fail has its checkpoint (and, after Phase A, its completion event).
ran_whole_graph(pass) ==
    /\ {7, 10} \subseteq pass.invoked
    /\ 8 \in pass.invoked <=> orchestrator_asked(pass, "specialist_needed")
    /\ 9 \in pass.invoked <=> orchestrator_asked(pass, "pharmacist_needed")
    /\ \A n \in (pass.invoked \cap StageAAgents) \ pass.failed : phase_a_checkpointed(pass, n)
    /\ \A n \in (pass.invoked \ StageAAgents) \ pass.failed :
          /\ \E r \in rows_of(n) : ValueOf(checkpoints[r].state_json, "output").agent_no = n
          /\ events_of(n, "completed") >= 1
    /\ \A n \in (pass.invoked \ StageAAgents) \cap pass.failed : events_of(n, "failed") >= 1

\* C37: a cancel request changes nothing of a pass in flight; a pass that was
\* in flight when the run was cancelled still goes through the whole graph
\* before it ends; and its last step leaves the cancelled status as it is.
C37_CancelNeverPreempts ==
    /\ [][(run_status # "cancelled" /\ run_status' = "cancelled") =>
            /\ checkpoints' = checkpoints
            /\ DOMAIN passes' = DOMAIN passes
            /\ \A k \in DOMAIN passes :
                  passes'[k] = [passes[k] EXCEPT !.cancelled_at = passes'[k].cancelled_at]]_vars
    /\ [](\A k \in DOMAIN passes :
            (passes[k].cancelled_at # "none" /\ passes[k].pc = "done") =>
                ran_whole_graph(passes[k]))
    /\ [][\A k \in DOMAIN passes :
            (/\ passes[k].cancelled_at # "none"
             /\ run_status = "cancelled"
             /\ passes[k].pc # "done"
             /\ k \in DOMAIN passes'
             /\ passes'[k].pc = "done") => run_status' = "cancelled"]_vars

\* A fresh pass that was cancelled while it awaited the orchestrator, went on
\* through specialist, pharmacist and compiler, and ended: the run is still
\* cancelled.
C37_Witness ==
    /\ Len(passes) = 1
    /\ passes[1].cancelled_at = "orchestrator"
    /\ passes[1].pc = "done"
    /\ passes[1].invoked = AllAgents
    /\ ran_whole_graph(passes[1])
    /\ run_status = "cancelled"

\* A resumed pass that was cancelled in flight and ended without invoking the
\* compiler, the run marked failed.
C37_CancelledPassCutShort ==
    \E k \in DOMAIN passes :
        /\ passes[k].cancelled_at # "none"
        /\ passes[k].pc = "done"
        /\ 10 \notin passes[k].invoked
        /\ run_status = "failed"

(***************************************************************************)
(* save_checkpoint calls that interleave                                   *)
(*                                                                         *)
(* Each call runs in a session of its own (gunicorn runs four worker       *)
(* processes): its query is one statement, its insert and commit another.  *)
(***************************************************************************)
MaxCallers == 2      \* save_checkpoint calls running in sessions of their own

\* The store's answer to session.add(checkpoint); session.commit(): the row
\* is inserted unless uq_checkpoint_dedup (run_id, node_key, state_hash)
\* rejects it, and then IntegrityError leaves save_checkpoint.  The sequence
\* value is used up either way.
insert_checkpoint(rows, nid, run_id, node_key, state) ==
    IF existing(rows, run_id, node_key, state_hash(state)) # NoRow
       THEN [rows |-> rows, next_id |-> nid + 1, pc |-> "raised", id |-> 0]
       ELSE [rows |-> Append(rows, Checkpoint(nid, run_id, node_key, state)),
             next_id |-> nid + 1, pc |-> "returned", id |-> nid]

\* save_checkpoint up to the end of its query: `if existing: return`.
SaveQuery ==
    /\ Len(cp_sessions) < MaxCallers
    /\ \E run_id \in RunIds, node_key \in StoreNodes, state \in StateDicts :
         LET ex == existing(checkpoints, run_id, node_key, state_hash(state))
         IN cp_sessions' = Append(cp_sessions,
                [run_id |-> run_id, node_key |-> node_key, state |-> state,
                 pc |-> IF ex # NoRow THEN "returned" ELSE "insert",
                 id |-> ex.id])
    /\ UNCHANGED <<checkpoints, next_id, cp_call, cp_returned>>
    /\ UNCHANGED <<retryVars, pipeVars, libVars>>

\* save_checkpoint from session.add to its return.
SaveInsert ==
    /\ \E i \in DOMAIN cp_sessions :
         /\ cp_sessions[i].pc = "insert"
         /\ LET s == cp_sessions[i]
                res == insert_checkpoint(checkpoints, next_id, s.run_id, s.node_key, s.state)
            IN /\ checkpoints' = res.rows
               /\ next_id' = res.next_id
               /\ cp_sessions' = [cp_sessions EXCEPT ![i].pc = res.pc, ![i].id = res.id]
    /\ UNCHANGED <<cp_call, cp_returned>>
    /\ UNCHANGED <<retryVars, pipeVars, libVars>>

InitStoreRace == InitStoreVars /\ InitRetryVars /\ InitPipeVars /\ InitLibVars
NextStoreRace ==
    \/ SaveQuery
    \/ SaveInsert
SpecStoreRace == InitStoreRace /\ [][NextStoreRace]_vars

\* C38: when two save_checkpoint calls with the same content for the same
\* (run, stage) have both ended, however their statements interleaved,
\* neither raised, both returned the same id, and the table holds exactly
\* one row with that content, the one with that id.
C38_ConcurrentSavesDedup ==
    \A i, j \in DOMAIN cp_sessions :
        (/\ i # j
         /\ cp_sessions[i].run_id = cp_sessions[j].run_id
         /\ cp_sessions[i].node_key = cp_sessions[j].node_key
         /\ content(cp_sessions[i].state) = content(cp_sessions[j].state)
         /\ cp_sessions[i].pc # "insert"
         /\ cp_sessions[j].pc # "insert") =>
            /\ cp_sessions[i].pc = "returned"
            /\ cp_sessions[j].pc = "returned"
            /\ cp_sessions[i].id = cp_sessions[j].id
            /\ \A r \in rows_with(checkpoints, cp_sessions[i].run_id,
                                  cp_sessions[i].node_key, cp_sessions[i].state) :
                  checkpoints[r].id = cp_sessions[i].id
            /\ Cardinality(rows_with(checkpoints, cp_sessions[i].run_id,
                                     cp_sessions[i].node_key, cp_sessions[i].state)) = 1

\* Two calls with the same content whose queries both ran before either
\* insert: one row, and the second call raised.
C38_SecondInsertRaises ==
    /\ Len(cp_sessions) = 2
    /\ cp_sessions[1].run_id = cp_sessions[2].run_id
    /\ content(cp_sessions[1].state) = content(cp_sessions[2].state)
    /\ cp_sessions[1].pc = "returned"
    /\ cp_sessions[2].pc = "raised"
    /\ Len(checkpoints) = 1

(***************************************************************************)
(* The latest checkpoint of a stage                                        *)
(***************************************************************************)
\* get_checkpoint(run_id, node_key): the state_json of the row of that run
\* and stage that comes first by created_at descending, None if there is no
\* row.  created_at is the insertion time: the newest row is the last one
\* inserted.
get_checkpoint(rows, run_id, node_key) ==
    LET hits == {i \in 1..Len(rows) :
                    rows[i].run_id = run_id /\ rows[i].node_key = node_key}
    IN IF hits = {} THEN NoneV
       ELSE rows[CHOOSE i \in hits : \A j \in hits : j <= i].state_json

\* C39: after every save_checkpoint call, get_checkpoint for the call's
\* (run, stage) returns the state that was passed to that call, also when
\* the call was answered with the id of an older row.
C39_LatestIsLastSaved ==
    cp_call.n >= 1 =>
        LET latest == get_checkpoint(checkpoints, cp_call.run_id, cp_call.node_key)
        IN /\ \E i \in 1..Len(checkpoints) :
                 /\ checkpoints[i].run_id = cp_call.run_id
                 /\ checkpoints[i].node_key = cp_call.node_key
           /\ content(latest) = content(cp_call.state)

\* Saves A, B, A: the third was deduplicated against the first row, and the
\* latest checkpoint is B.
C39_LatestIsOlderSave ==
    /\ cp_call.n = 3
    /\ Len(checkpoints) = 2
    /\ cp_call.id = checkpoints[1].id
    /\ content(checkpoints[1].state_json) = content(cp_call.state)
    /\ checkpoints[2].run_id = cp_call.run_id
    /\ checkpoints[2].node_key = cp_call.node_key
    /\ content(get_checkpoint(checkpoints, cp_call.run_id, cp_call.node_key))
          # content(cp_call.state)
====
